---------------------------- MODULE Spec2Model ----------------------------
(***************************************************************************)
(* A model of the calendar MCP server: the in-memory event store of        *)
(* main.py (add_event, view_events, delete_event, summarize_events), the   *)
(* ICS export of ics_generator.py, the token files of oauth_manager.py,    *)
(* the calendar requests of calendar_api.py, the HTTP handler of           *)
(* api/mcp.py and the OAuth handler of oauth_handler.py.                   *)
(* Texts are TLA+ strings; a character is a string of length 1.            *)
(***************************************************************************)
EXTENDS Integers, Sequences, FiniteSets, TLC

VARIABLES
  events,   \* main.py: the module-level list `events`
  op,       \* the last tool call: its name and arguments
  ret,      \* the text the last tool call returned
  prev,     \* the tool call before the last one: its name, title and success
  files,    \* ics_generator.py: the files under output_dir, as (path, content) pairs
  exported, \* ics_generator.py: the results generate_ics returned with success
  now,      \* the last value read from the clock, datetime.now()
  google_file,      \* oauth_manager.py: TOKEN_DIR / 'google_token.json'
  microsoft_file,   \* oauth_manager.py: TOKEN_DIR / 'microsoft_token.json'
  google_creds,     \* oauth_manager.py: OAuthManager.google_creds
  microsoft_token,  \* oauth_manager.py: OAuthManager.microsoft_token
  config,           \* what the environment supplies: credentials.json, client id and secret
  steps,            \* the library and remote steps the last tool call made, in order
  tools,            \* main.py: the names registered with mcp by @mcp.tool()
  prompts,          \* main.py: the names registered with mcp by @mcp.prompt()
  phase,            \* how far main.py has been executed, and whether it serves
  response,         \* api/mcp.py: the response the handler returned last
  handler_credentials,  \* oauth_handler.py: OAuthHandler.credentials
  user_info,        \* oauth_handler.py: OAuthHandler.user_info
  token_json,       \* oauth_handler.py: the file TOKEN_FILE, 'token.json'
  outcome           \* oauth_handler.py: how the last call of a method of the handler ended

storeVars == <<events>>

icsVars == <<files, exported, now>>

authVars == <<google_file, microsoft_file, google_creds, microsoft_token, config>>

serverVars == <<tools, prompts, phase, response>>

handlerVars == <<handler_credentials, user_info, token_json, outcome>>

vars == <<events, op, ret, prev, files, exported, now,
          google_file, microsoft_file, google_creds, microsoft_token, config, steps,
          tools, prompts, phase, response,
          handler_credentials, user_info, token_json, outcome>>

-----------------------------------------------------------------------------
(* Bounds of the model *)

MaxEvents == 3

\* export_ics calls that write a file, per run
MaxExports == 2

\* the largest value the clock is read at
MaxClock == 2

-----------------------------------------------------------------------------
(* Characters and strings, as Python's str behaves on them *)

\* The characters of the model in ascending code-point order.
AsciiOrder == " '-./0123456789:ABCDEFGHIJKLMNOPQRSTUVWXYZ_abcdefghijklmnopqrstuvwxyz|"

Upper == "ABCDEFGHIJKLMNOPQRSTUVWXYZ"

LowerLetters == "abcdefghijklmnopqrstuvwxyz"

Digits == "0123456789"

Char(s, i) == SubSeq(s, i, i)

CharSet == {Char(AsciiOrder, i) : i \in 1..Len(AsciiOrder)}

\* The rank of a character among the characters of the model: the order of
\* the code points that str comparison uses.
Ord == [c \in CharSet |-> CHOOSE i \in 1..Len(AsciiOrder) : Char(AsciiOrder, i) = c]

DigitSet == {Char(Digits, i) : i \in 1..Len(Digits)}

IsDigit(c) == c \in DigitSet

DigitValue == [c \in DigitSet |-> (CHOOSE i \in 1..Len(Digits) : Char(Digits, i) = c) - 1]

DigitVal(c) == DigitValue[c]

\* The lower-case letter of every upper-case letter
LowerOf ==
  [c \in {Char(Upper, i) : i \in 1..Len(Upper)} |->
     Char(LowerLetters, CHOOSE i \in 1..Len(Upper) : Char(Upper, i) = c)]

\* str.lower() on one character
LowerChar(c) == IF c \in DOMAIN LowerOf THEN LowerOf[c] ELSE c

RECURSIVE Lower(_)
\* str.lower()
Lower(s) == IF s = "" THEN "" ELSE LowerChar(Head(s)) \o Lower(Tail(s))

RECURSIVE StrLess(_, _)
\* a < b on str: lexicographic by code point, a proper prefix is smaller
StrLess(a, b) ==
  IF b = "" THEN FALSE
  ELSE IF a = "" THEN TRUE
  ELSE IF Head(a) = Head(b) THEN StrLess(Tail(a), Tail(b))
  ELSE Ord[Head(a)] < Ord[Head(b)]

\* needle in hay
Contains(hay, needle) ==
  \E i \in 1..(Len(hay) - Len(needle) + 1) :
    SubSeq(hay, i, i + Len(needle) - 1) = needle

StartsWith(s, p) == Len(s) >= Len(p) /\ SubSeq(s, 1, Len(p)) = p

RECURSIVE SplitLines(_, _)
\* text.split("\n") with the part read so far in cur
SplitLines(s, cur) ==
  IF s = "" THEN <<cur>>
  ELSE IF Head(s) = "\n" THEN <<cur>> \o SplitLines(Tail(s), "")
  ELSE SplitLines(Tail(s), cur \o Head(s))

\* The lines of a text that ends each line with "\n"
Lines(s) == LET parts == SplitLines(s, "") IN SubSeq(parts, 1, Len(parts) - 1)

-----------------------------------------------------------------------------
(* datetime.strptime(date, "%Y-%m-%d"): the regular expression             *)
(* (\d\d\d\d)-(1[0-2]|0[1-9]|[1-9])-(3[0-1]|[1-2]\d|0[1-9]|[1-9]| [1-9])   *)
(* matched at the start, no data left over, then datetime.date(y, m, d).   *)

IsChar19(c) == IsDigit(c) /\ c # "0"

\* number of characters the month directive takes at position 6, 0 if none
MonthLen(s) ==
  IF Len(s) >= 7 /\ ( (Char(s, 6) = "1" /\ Char(s, 7) \in {"0", "1", "2"})
                   \/ (Char(s, 6) = "0" /\ IsChar19(Char(s, 7))) )
  THEN 2
  ELSE IF Len(s) >= 6 /\ IsChar19(Char(s, 6)) THEN 1 ELSE 0

\* the day directive matches the whole of t
DayToken(t) ==
  \/ Len(t) = 2 /\ ( (Char(t, 1) = "3" /\ Char(t, 2) \in {"0", "1"})
                  \/ (Char(t, 1) \in {"1", "2"} /\ IsDigit(Char(t, 2)))
                  \/ (Char(t, 1) = "0" /\ IsChar19(Char(t, 2)))
                  \/ (Char(t, 1) = " " /\ IsChar19(Char(t, 2))) )
  \/ Len(t) = 1 /\ IsChar19(Char(t, 1))

RECURSIVE ToInt(_)
\* int() of a string of digits and blanks
ToInt(t) ==
  IF t = "" THEN 0
  ELSE LET c == Char(t, Len(t))
           r == SubSeq(t, 1, Len(t) - 1)
       IN IF c = " " THEN ToInt(r) ELSE 10 * ToInt(r) + DigitVal(c)

IsLeap(y) == (y % 4 = 0 /\ y % 100 # 0) \/ y % 400 = 0

DaysInMonth(y, m) ==
  IF m = 2 THEN (IF IsLeap(y) THEN 29 ELSE 28)
  ELSE IF m \in {4, 6, 9, 11} THEN 30 ELSE 31

\* the regular expression of "%Y-%m-%d" matches all of s
MatchesYmd(s) ==
  /\ Len(s) >= 8
  /\ \A i \in 1..4 : IsDigit(Char(s, i))
  /\ Char(s, 5) = "-"
  /\ MonthLen(s) > 0
  /\ Len(s) > 6 + MonthLen(s)
  /\ Char(s, 6 + MonthLen(s)) = "-"
  /\ DayToken(SubSeq(s, 7 + MonthLen(s), Len(s)))

YearOf(s) == ToInt(SubSeq(s, 1, 4))

MonthOf(s) == ToInt(SubSeq(s, 6, 5 + MonthLen(s)))

DayOf(s) == ToInt(SubSeq(s, 7 + MonthLen(s), Len(s)))

\* strptime(s, "%Y-%m-%d") returns instead of raising ValueError
StrptimeYmd(s) ==
  /\ MatchesYmd(s)
  /\ YearOf(s) >= 1
  /\ DayOf(s) <= DaysInMonth(YearOf(s), MonthOf(s))

-----------------------------------------------------------------------------
(* The arguments the tools are called with *)

\* Titles: two that differ in letter case only, and a third
Titles == {"Ab", "aB", "c"}

\* Dates strptime accepts: three zero-padded ones and one written without padding
ValidDates == {"2026-01-01", "2026-02-01", "2026-03-01", "2026-1-5"}

\* Dates strptime rejects: wrong separators, month 13, day 45, non-numeric,
\* a day the month does not have
InvalidDates == {"2026/01/01", "2026-13-01", "2026-01-45", "abcd-ef-gh", "2026-02-30"}

\* The (title, date, description) triples add_event is called with: every valid
\* date, equal dates under different titles, titles equal up to case, with and
\* without a description, and every invalid date
AddInputs ==
  { <<"Ab", "2026-03-01", "">>, <<"aB", "2026-01-01", "x">>, <<"c", "2026-02-01", "">>,
    <<"c", "2026-01-01", "">>, <<"Ab", "2026-1-5", "x">>, <<"aB", "2026-03-01", "">> }
  \cup { <<"c", d, "x">> : d \in InvalidDates }

NoCall == [name |-> "init", title |-> "", date |-> "", description |-> ""]

Call(name, title, date, description) ==
  [name |-> name, title |-> title, date |-> date, description |-> description]


-----------------------------------------------------------------------------
(* The texts main.py returns *)

AddedMsg(title, date) == "Event '" \o title \o "' added for " \o date \o "."

InvalidDateMsg == "Invalid date format. Use YYYY-MM-DD."

NoEventsMsg == "No events scheduled."

DeletedMsg(title) == "Event '" \o title \o "' deleted."

NotFoundMsg(title) == "No event found with title '" \o title \o "'."

\* The check mark U+2713 and the cross U+2717 of the texts of main.py
CheckMark == "[v]"

CrossMark == "[x]"

\* r is one of the texts a tool returns when it did what it was asked
SuccessText(r) ==
  StartsWith(r, "Event '") \/ StartsWith(r, CheckMark) \/ StartsWith(r, "Successfully")

\* What is remembered of the call before the last one: its name, its title or
\* provider, and whether it returned a success text
Seen(o, r) ==
  [name |-> o.name,
   title |-> IF "provider" \in DOMAIN o THEN o.provider ELSE o.title,
   ok |-> SuccessText(r)]

-----------------------------------------------------------------------------
(* sorted(events, key=lambda x: x["date"]): a stable sort on the date text *)

RECURSIVE InsertByDate(_, _)
\* e put into the sorted list s behind every element whose date is not larger
InsertByDate(e, s) ==
  IF s = <<>> THEN <<e>>
  ELSE IF StrLess(e.date, Head(s).date) THEN <<e>> \o s
  ELSE <<Head(s)>> \o InsertByDate(e, Tail(s))

RECURSIVE SortedFrom(_, _)
SortedFrom(s, acc) ==
  IF s = <<>> THEN acc ELSE SortedFrom(Tail(s), InsertByDate(Head(s), acc))

SortedByDate(s) == SortedFrom(s, <<>>)

-----------------------------------------------------------------------------
(* main.py: the bodies of the four tools of the event store *)

\* add_event: whether strptime raises ValueError decides between the two returns
AddEventOk(date) == StrptimeYmd(date)

\* add_event replacing a stored event of the same title and date
AddEventStoreReplacing(evs, title, date, description) ==
  LET e == [title |-> title, date |-> date, description |-> description]
      same(x) == x.title = title /\ x.date = date
  IN IF \E i \in 1..Len(evs) : same(evs[i])
     THEN [i \in 1..Len(evs) |-> IF same(evs[i]) THEN e ELSE evs[i]]
     ELSE Append(evs, e)

\* add_event storing the event without its description
AddEventStoreNoDescription(evs, title, date, description) ==
  Append(evs, [title |-> title, date |-> date, description |-> ""])

\* add_event: events.append({...})
AddEventStore(evs, title, date, description) ==
  Append(evs, [title |-> title, date |-> date, description |-> description])

\* view_events: one line of the listing
ViewLine(e) ==
  "- " \o e.date \o ": " \o e.title
       \o (IF e.description # "" THEN " - " \o e.description ELSE "") \o "\n"

RECURSIVE ViewBodyDescribedOnly(_)
\* A view_events that lists only the events that have a description
ViewBodyDescribedOnly(s) ==
  IF s = <<>> THEN ""
  ELSE (IF Head(s).description # "" THEN ViewLine(Head(s)) ELSE "")
         \o ViewBodyDescribedOnly(Tail(s))

RECURSIVE ViewBody(_)
ViewBody(s) == IF s = <<>> THEN "" ELSE ViewLine(Head(s)) \o ViewBody(Tail(s))

\* view_events: the text returned
ViewText(evs) ==
  IF evs = <<>> THEN NoEventsMsg
  ELSE "Calendar Events:\n" \o ViewBody(SortedByDate(evs))

\* summarize_events: one line of the summary
SummaryLine(e) ==
  "- " \o e.date \o ": " \o e.title
       \o (IF e.description # "" THEN " (" \o e.description \o ")" ELSE "") \o "\n"

RECURSIVE SummaryBody(_)
SummaryBody(s) == IF s = <<>> THEN "" ELSE SummaryLine(Head(s)) \o SummaryBody(Tail(s))

\* A summarize_events that lists the events in the order they are stored in
SummaryTextUnsorted(evs) ==
  IF evs = <<>> THEN NoEventsMsg
  ELSE "Upcoming Events Summary:\n" \o SummaryBody(evs)

\* summarize_events: the text returned
SummaryText(evs) ==
  IF evs = <<>> THEN NoEventsMsg
  ELSE "Upcoming Events Summary:\n" \o SummaryBody(SortedByDate(evs))

\* A delete_event that compares the titles as written
DeleteKeepsCaseSensitive(e, title) == e.title # title

\* delete_event: the test of the list comprehension, e is kept
DeleteKeeps(e, title) == Lower(e.title) # Lower(title)

RECURSIVE DeleteFilterFirstOnly(_, _)
\* A delete_event that removes the first match only
DeleteFilterFirstOnly(evs, title) ==
  IF evs = <<>> THEN <<>>
  ELSE IF Lower(Head(evs).title) = Lower(title) THEN Tail(evs)
  ELSE <<Head(evs)>> \o DeleteFilterFirstOnly(Tail(evs), title)

RECURSIVE DeleteFilter(_, _)
\* delete_event: [e for e in events if e["title"].lower() != title.lower()]
DeleteFilter(evs, title) ==
  IF evs = <<>> THEN <<>>
  ELSE (IF DeleteKeeps(Head(evs), title) THEN <<Head(evs)>> ELSE <<>>)
         \o DeleteFilter(Tail(evs), title)

\* delete_event: the text returned, from the lengths before and after
DeleteText(before, after, title) ==
  IF Len(after) < Len(before) THEN DeletedMsg(title) ELSE NotFoundMsg(title)

-----------------------------------------------------------------------------
(* The event store as a state machine *)

\* No token file, or no credentials held in memory
NoToken == [exists |-> FALSE, expired |-> FALSE, refresh |-> FALSE, access_token |-> FALSE]

\* The environment of the repository as checked out: no credentials.json and
\* no MICROSOFT_CLIENT_ID / MICROSOFT_CLIENT_SECRET
NoConfig == [credentials_json |-> FALSE, client_id |-> FALSE, client_secret |-> FALSE]

\* The tools of main.py up to the __main__ test: lines 26 to 66
StoreTools == {"add_event", "view_events", "delete_event"}

\* The tools of main.py behind the __main__ test: lines 89 to 302
RemoteTools ==
  {"oauth_login", "check_auth_status", "create_calendar_event", "export_ics", "oauth_logout"}

\* @mcp.prompt(): line 69
StorePrompts == {"summarize_events"}

NoResponse == [statusCode |-> 0, body |-> ""]

\* oauth_handler.py: no credentials, as __init__ leaves the handler
NoCredentials == [present |-> FALSE, valid |-> FALSE, origin |-> ""]

\* oauth_handler.py: no user info, as __init__ leaves the handler
NoUserInfo == [present |-> FALSE]

\* oauth_handler.py: no method of the handler has been called
NoOutcome == [returned |-> FALSE, raised |-> FALSE]

\* oauth_handler.py: there is no file token.json
NoTokenJson == [kind |-> "absent", origin |-> ""]

\* The objects of the module before anything is called
InitState ==
  /\ events = <<>>
  /\ op = NoCall
  /\ ret = ""
  /\ prev = Seen(NoCall, "")
  /\ files = {}
  /\ exported = <<>>
  /\ now = 0
  /\ google_creds = NoToken
  /\ microsoft_token = NoToken
  /\ steps = <<>>
  /\ response = NoResponse
  /\ handler_credentials = NoCredentials
  /\ user_info = NoUserInfo
  /\ outcome = NoOutcome

\* main.py imported: every decorator has run, mcp.run() has not
InitProcess ==
  /\ InitState
  /\ tools = StoreTools \cup RemoteTools
  /\ prompts = StorePrompts
  /\ phase = "imported"

Init ==
  /\ InitProcess
  /\ google_file = NoToken
  /\ microsoft_file = NoToken
  /\ config = NoConfig
  /\ token_json = NoTokenJson

add_event(title, date, description) ==
  /\ Len(events) < MaxEvents
  /\ IF AddEventOk(date)
     THEN /\ events' = AddEventStore(events, title, date, description)
          /\ ret' = AddedMsg(title, date)
     ELSE /\ events' = events
          /\ ret' = InvalidDateMsg
  /\ op' = Call("add_event", title, date, description)
  /\ prev' = Seen(op, ret)
  /\ steps' = <<>>
  /\ UNCHANGED <<icsVars, authVars, serverVars, handlerVars>>

\* A view_events that sorts the stored list itself
view_events_sorting_store ==
  /\ ret' = ViewText(events)
  /\ events' = SortedByDate(events)
  /\ op' = Call("view_events", "", "", "")
  /\ prev' = Seen(op, ret)
  /\ steps' = <<>>
  /\ UNCHANGED <<icsVars, authVars, serverVars, handlerVars>>

view_events ==
  /\ ret' = ViewText(events)
  /\ op' = Call("view_events", "", "", "")
  /\ prev' = Seen(op, ret)
  /\ steps' = <<>>
  /\ UNCHANGED <<events, icsVars, authVars, serverVars, handlerVars>>

delete_event(title) ==
  /\ events' = DeleteFilter(events, title)
  /\ ret' = DeleteText(events, events', title)
  /\ op' = Call("delete_event", title, "", "")
  /\ prev' = Seen(op, ret)
  /\ steps' = <<>>
  /\ UNCHANGED <<icsVars, authVars, serverVars, handlerVars>>

summarize_events ==
  /\ ret' = SummaryText(events)
  /\ op' = Call("summarize_events", "", "", "")
  /\ prev' = Seen(op, ret)
  /\ steps' = <<>>
  /\ UNCHANGED <<events, icsVars, authVars, serverVars, handlerVars>>

AddEvent == \E a \in AddInputs : add_event(a[1], a[2], a[3])

ViewEvents == view_events

DeleteEvent == \E t \in Titles : delete_event(t)

SummarizeEvents == summarize_events

Next == AddEvent \/ ViewEvents \/ DeleteEvent \/ SummarizeEvents

Spec == Init /\ [][Next]_vars

-----------------------------------------------------------------------------
(* datetime.strptime(t, "%H:%M"): the regular expression                   *)
(* (2[0-3]|[0-1]\d|\d):([0-5]\d|\d) matched at the start, no data left.    *)

\* number of characters the hour directive takes at position 1, 0 if none
HourLen(t) ==
  IF Len(t) >= 2 /\ ( (Char(t, 1) = "2" /\ Char(t, 2) \in {"0", "1", "2", "3"})
                   \/ (Char(t, 1) \in {"0", "1"} /\ IsDigit(Char(t, 2))) )
  THEN 2
  ELSE IF Len(t) >= 1 /\ IsDigit(Char(t, 1)) THEN 1 ELSE 0

\* the minute directive matches the whole of t
MinuteToken(t) ==
  \/ Len(t) = 2 /\ Char(t, 1) \in {"0", "1", "2", "3", "4", "5"} /\ IsDigit(Char(t, 2))
  \/ Len(t) = 1 /\ IsDigit(Char(t, 1))

\* strptime(t, "%H:%M") returns instead of raising ValueError
StrptimeHM(t) ==
  /\ HourLen(t) > 0
  /\ Len(t) > HourLen(t)
  /\ Char(t, HourLen(t) + 1) = ":"
  /\ MinuteToken(SubSeq(t, HourLen(t) + 2, Len(t)))

HourOf(t) == ToInt(SubSeq(t, 1, HourLen(t)))

MinuteOf(t) == ToInt(SubSeq(t, HourLen(t) + 2, Len(t)))

\* strptime(s, "%Y-%m-%d %H:%M") returns: a blank parts a date from a time
StrptimeYmdHM(s) ==
  \E k \in 1..Len(s) :
    /\ Char(s, k) = " "
    /\ StrptimeYmd(SubSeq(s, 1, k - 1))
    /\ StrptimeHM(SubSeq(s, k + 1, Len(s)))

\* the datetime that strptime(date + " " + time, "%Y-%m-%d %H:%M") returns
DateTimeOf(date, time) ==
  <<YearOf(date), MonthOf(date), DayOf(date), HourOf(time), MinuteOf(time)>>

-----------------------------------------------------------------------------
(* ics_generator.py: ICSGenerator.generate_ics *)

InvalidTimeMsg == "Invalid time format. Use HH:MM (e.g., 09:00)."

OutputDir == "/tmp/calendar_events"

RECURSIVE IntToStr(_)
\* str() of a number that is not negative
IntToStr(n) ==
  IF n < 10 THEN Char(Digits, n + 1)
  ELSE IntToStr(n \div 10) \o Char(Digits, (n % 10) + 1)

\* c.isalnum()
IsAlnum(c) ==
  \/ IsDigit(c)
  \/ \E i \in 1..Len(Upper) : Char(Upper, i) = c \/ Char(LowerLetters, i) = c

RECURSIVE SafeTitle(_)
\* "".join(c if c.isalnum() or c in (' ', '-', '_') else '_' for c in title)
SafeTitle(title) ==
  IF title = "" THEN ""
  ELSE (IF IsAlnum(Head(title)) \/ Head(title) \in {" ", "-", "_"}
        THEN Head(title) ELSE "_") \o SafeTitle(Tail(title))

RECURSIVE Dashed(_)
\* title.replace(' ', '-')
Dashed(title) ==
  IF title = "" THEN ""
  ELSE (IF Head(title) = " " THEN "-" ELSE Head(title)) \o Dashed(Tail(title))

\* the record identifier: date, title and the timestamp read from the clock
IcsUid(title, date, t) ==
  date \o "-" \o Dashed(title) \o "-" \o IntToStr(t) \o "@calendar-mcp"

IcsFilename(title, date) == date \o "_" \o SafeTitle(title) \o ".ics"

\* self.output_dir / filename
IcsPath(title, date) == OutputDir \o "/" \o IcsFilename(title, date)

\* cal.to_ical(): the calendar with its one event
IcsContent(title, date, description, start_time, end_time, t) ==
  [summary |-> title, description |-> description,
   dtstart |-> DateTimeOf(date, start_time), dtend |-> DateTimeOf(date, end_time),
   dtstamp |-> t, uid |-> IcsUid(title, date, t)]

\* open(filepath, 'wb') and write: the file at path holds content, any older
\* file at that path is replaced
WriteFile(fs, path, content) ==
  {f \in fs : f.path # path} \cup {[path |-> path, content |-> content]}

\* What stands for the content in a result that names no file
NoContent ==
  [summary |-> "", description |-> "", dtstart |-> <<0, 0, 0, 0, 0>>,
   dtend |-> <<0, 0, 0, 0, 0>>, dtstamp |-> 0, uid |-> ""]

\* generate_ics: the dict returned; io_ok is whether the file could be written
GenerateIcs(title, date, description, start_time, end_time, t, io_ok) ==
  IF /\ StrptimeYmdHM(date \o " " \o start_time)
     /\ StrptimeYmdHM(date \o " " \o end_time)
     /\ io_ok
  THEN [success |-> TRUE, title |-> title, date |-> date,
        file_path |-> IcsPath(title, date),
        content |-> IcsContent(title, date, description, start_time, end_time, t)]
  ELSE [success |-> FALSE, title |-> title, date |-> date,
        file_path |-> "", content |-> NoContent]

IcsGeneratedMsg(path) ==
  CheckMark \o " ICS file generated!\nFile: " \o path
    \o "\nYou can import this file into any calendar application"
    \o " (Apple Calendar, Google Calendar, Outlook, etc.)."

IcsFailedMsg == "Failed to generate ICS file: "

\* The arguments export_ics is called with: the same title and date twice with
\* different details, two titles that differ only in a character the file name
\* replaces, times written with one digit, and a date and times that do not parse
ExportInputs ==
  { <<"Ab", "2026-01-01", "", "09:00", "10:00">>,
    <<"Ab", "2026-01-01", "x", "9:5", "23:59">>,
    <<"a/b c", "2026-03-01", "", "09:00", "10:00">>,
    <<"a_b c", "2026-03-01", "", "09:00", "10:00">>,
    <<"Ab", "2026-13-01", "", "09:00", "10:00">>,
    <<"Ab", "2026-01-01", "", "24:00", "10:00">>,
    <<"Ab", "2026-01-01", "", "09:00", "10:60">> }

ExportCall(title, date, description, start_time, end_time, timezone) ==
  [name |-> "export_ics", title |-> title, date |-> date, description |-> description,
   start_time |-> start_time, end_time |-> end_time, timezone |-> timezone]

\* main.py: export_ics. t is the value the clock is read at, io_ok whether the
\* file system lets the file be written.
export_ics(title, date, description, start_time, end_time, timezone, t, io_ok) ==
  /\ Len(exported) < MaxExports
  /\ t >= now /\ t <= MaxClock
  /\ IF ~StrptimeYmd(date)
     THEN /\ ret' = InvalidDateMsg
          /\ UNCHANGED icsVars
     ELSE IF ~(StrptimeHM(start_time) /\ StrptimeHM(end_time))
     THEN /\ ret' = InvalidTimeMsg
          /\ UNCHANGED icsVars
     ELSE LET result == GenerateIcs(title, date, description, start_time, end_time, t, io_ok)
          IN /\ now' = t
             /\ IF result.success
                THEN /\ files' = WriteFile(files, result.file_path, result.content)
                     /\ exported' = Append(exported, result)
                     /\ ret' = IcsGeneratedMsg(result.file_path)
                ELSE /\ UNCHANGED <<files, exported>>
                     /\ ret' = IcsFailedMsg
  /\ op' = ExportCall(title, date, description, start_time, end_time, timezone)
  /\ prev' = Seen(op, ret)
  /\ steps' = <<>>
  /\ UNCHANGED <<storeVars, authVars, serverVars, handlerVars>>

ExportIcs ==
  \E a \in ExportInputs, t \in 0..MaxClock, io_ok \in BOOLEAN :
    export_ics(a[1], a[2], a[3], a[4], a[5], "UTC", t, io_ok)

NextIcs == ExportIcs

\* The export tool alone
SpecIcs == Init /\ [][NextIcs]_vars

-----------------------------------------------------------------------------
(* oauth_manager.py: OAuthManager.  A token file or a held credential is a   *)
(* record: whether it exists, whether its access token has expired, whether  *)
(* it carries a refresh token, whether it carries an access token.           *)

\* A Google credential as the flow or a refresh returns it: valid
FreshGoogle(refresh) ==
  [exists |-> TRUE, expired |-> FALSE, refresh |-> refresh, access_token |-> TRUE]

\* A Microsoft token response with an access token
FreshMicrosoft ==
  [exists |-> TRUE, expired |-> FALSE, refresh |-> FALSE, access_token |-> TRUE]

\* What a token file may hold
TokenStates ==
  {NoToken} \cup [exists : {TRUE}, expired : BOOLEAN, refresh : BOOLEAN, access_token : {TRUE}]

\* creds.valid
CredsValid(c) == c.exists /\ c.access_token /\ ~c.expired

NoError == [kind |-> "", msg |-> ""]

GoogleConfigMissing ==
  [kind |-> "FileNotFoundError",
   msg |-> "Google credentials file not found at credentials.json. "
             \o "Please download OAuth 2.0 credentials from Google Cloud Console."]

MicrosoftConfigMissing ==
  [kind |-> "ValueError",
   msg |-> "Microsoft credentials not found. Please set MICROSOFT_CLIENT_ID "
             \o "and MICROSOFT_CLIENT_SECRET environment variables."]

\* An exception of a library, as the library raised it: RefreshError, a
\* transport error, a flow that fails
LibraryError(what) == [kind |-> "LibraryError", msg |-> what]

\* raise Exception(f"Failed to acquire Microsoft token: {error}")
AcquireFailed(error) ==
  [kind |-> "Exception", msg |-> "Failed to acquire Microsoft token: " \o error]

\* What the libraries and the user may answer within one call: whether
\* creds.refresh succeeds, what the Google flow returns, whether the MSAL
\* application can be built, whether it knows an account, what the silent and
\* the interactive acquisition return
Answer(refresh_ok, flow, app_ok, accounts, silent, interactive) ==
  [refresh_ok |-> refresh_ok, flow |-> flow, app_ok |-> app_ok,
   accounts |-> accounts, silent |-> silent, interactive |-> interactive]

\* The answers that matter to get_google_credentials
GoogleAnswers ==
  { Answer(FALSE, "creds", TRUE, FALSE, "none", "token") }
  \cup { Answer(TRUE, f, TRUE, FALSE, "none", "token") :
           f \in {"creds", "creds_no_refresh", "raises"} }

\* The answers that matter to get_microsoft_token
MicrosoftAnswers ==
  { Answer(TRUE, "creds", FALSE, FALSE, "none", "token"),
    Answer(TRUE, "creds", TRUE, TRUE, "token", "token") }
  \cup { Answer(TRUE, "creds", TRUE, FALSE, "none", i) : i \in {"token", "error", "raises"} }
  \cup { Answer(TRUE, "creds", TRUE, TRUE, "none", i) : i \in {"token", "error"} }

Answers == GoogleAnswers \cup MicrosoftAnswers

\* The answers that matter to a call for the provider named
AnswersFor(provider) ==
  IF Lower(provider) = "google" THEN GoogleAnswers
  ELSE IF Lower(provider) = "microsoft" THEN MicrosoftAnswers
  ELSE {Answer(TRUE, "creds", TRUE, FALSE, "none", "token")}

\* get_google_credentials that asks for the client configuration before it
\* looks at the cached token
GetGoogleCredentialsConfigFirst(file, mem, cfg, ans) ==
  LET creds == file
      out(err, c, f, m, st) == [raised |-> err, creds |-> c, file |-> f, mem |-> m, steps |-> st]
      load == IF file.exists THEN <<"load">> ELSE <<>>
  IN IF ~cfg.credentials_json
     THEN out(GoogleConfigMissing, NoToken, file, mem, load)
     ELSE IF creds.exists /\ CredsValid(creds)
     THEN out(NoError, creds, file, creds, load)
     ELSE IF creds.exists /\ creds.expired /\ creds.refresh
     THEN IF ans.refresh_ok
          THEN out(NoError, FreshGoogle(TRUE), FreshGoogle(TRUE), FreshGoogle(TRUE),
                   load \o <<"refresh", "write">>)
          ELSE out(LibraryError("refresh failed"), NoToken, file, mem, load \o <<"refresh">>)
     ELSE IF ans.flow = "raises"
     THEN out(LibraryError("flow failed"), NoToken, file, mem, load \o <<"flow">>)
     ELSE LET c == FreshGoogle(ans.flow = "creds")
          IN out(NoError, c, c, c, load \o <<"flow", "write">>)

\* get_google_credentials that tries a failed refresh a second time
GetGoogleCredentialsRefreshTwice(file, mem, cfg, ans) ==
  LET creds == file
      out(err, c, f, m, st) == [raised |-> err, creds |-> c, file |-> f, mem |-> m, steps |-> st]
      load == IF file.exists THEN <<"load">> ELSE <<>>
  IN IF creds.exists /\ CredsValid(creds)
     THEN out(NoError, creds, file, creds, load)
     ELSE IF creds.exists /\ creds.expired /\ creds.refresh
     THEN IF ans.refresh_ok
          THEN out(NoError, FreshGoogle(TRUE), FreshGoogle(TRUE), FreshGoogle(TRUE),
                   load \o <<"refresh", "write">>)
          ELSE out(LibraryError("refresh failed"), NoToken, file, mem,
                   load \o <<"refresh", "refresh">>)
     ELSE IF ~cfg.credentials_json
     THEN out(GoogleConfigMissing, NoToken, file, mem, load)
     ELSE IF ans.flow = "raises"
     THEN out(LibraryError("flow failed"), NoToken, file, mem, load \o <<"flow">>)
     ELSE LET c == FreshGoogle(ans.flow = "creds")
          IN out(NoError, c, c, c, load \o <<"flow", "write">>)

\* get_google_credentials that does not save what the interactive flow returned
GetGoogleCredentialsFlowNotSaved(file, mem, cfg, ans) ==
  LET creds == file
      out(err, c, f, m, st) == [raised |-> err, creds |-> c, file |-> f, mem |-> m, steps |-> st]
      load == IF file.exists THEN <<"load">> ELSE <<>>
  IN IF creds.exists /\ CredsValid(creds)
     THEN out(NoError, creds, file, creds, load)
     ELSE IF creds.exists /\ creds.expired /\ creds.refresh
     THEN IF ans.refresh_ok
          THEN out(NoError, FreshGoogle(TRUE), FreshGoogle(TRUE), FreshGoogle(TRUE),
                   load \o <<"refresh", "write">>)
          ELSE out(LibraryError("refresh failed"), NoToken, file, mem, load \o <<"refresh">>)
     ELSE IF ~cfg.credentials_json
     THEN out(GoogleConfigMissing, NoToken, file, mem, load)
     ELSE IF ans.flow = "raises"
     THEN out(LibraryError("flow failed"), NoToken, file, mem, load \o <<"flow">>)
     ELSE LET c == FreshGoogle(ans.flow = "creds")
          IN out(NoError, c, file, c, load \o <<"flow">>)

\* get_google_credentials: what it raises, what it returns, the token file and
\* self.google_creds it leaves, and the steps it made
GetGoogleCredentials(file, mem, cfg, ans) ==
  LET creds == file
      out(err, c, f, m, st) == [raised |-> err, creds |-> c, file |-> f, mem |-> m, steps |-> st]
      load == IF file.exists THEN <<"load">> ELSE <<>>
  IN IF creds.exists /\ CredsValid(creds)
     THEN out(NoError, creds, file, creds, load)
     ELSE IF creds.exists /\ creds.expired /\ creds.refresh
     THEN IF ans.refresh_ok
          THEN out(NoError, FreshGoogle(TRUE), FreshGoogle(TRUE), FreshGoogle(TRUE),
                   load \o <<"refresh", "write">>)
          ELSE out(LibraryError("refresh failed"), NoToken, file, mem, load \o <<"refresh">>)
     ELSE IF ~cfg.credentials_json
     THEN out(GoogleConfigMissing, NoToken, file, mem, load)
     ELSE IF ans.flow = "raises"
     THEN out(LibraryError("flow failed"), NoToken, file, mem, load \o <<"flow">>)
     ELSE LET c == FreshGoogle(ans.flow = "creds")
          IN out(NoError, c, c, c, load \o <<"flow", "write">>)

\* get_microsoft_token that goes to the interactive flow without trying the
\* account cache
GetMicrosoftTokenNoSilent(file, mem, cfg, ans) ==
  LET out(err, c, f, m, st) == [raised |-> err, creds |-> c, file |-> f, mem |-> m, steps |-> st]
  IN IF file.exists
     THEN out(NoError, file, file, file, <<"load">>)
     ELSE IF ~cfg.client_id \/ ~cfg.client_secret
     THEN out(MicrosoftConfigMissing, NoToken, file, mem, <<>>)
     ELSE IF ~ans.app_ok
     THEN out(LibraryError("authority not reachable"), NoToken, file, mem, <<"app">>)
     ELSE IF ans.interactive = "token"
     THEN out(NoError, FreshMicrosoft, FreshMicrosoft, FreshMicrosoft,
              <<"app", "interactive", "write">>)
     ELSE IF ans.interactive = "error"
     THEN out(AcquireFailed("Unknown error"), NoToken, file, mem, <<"app", "interactive">>)
     ELSE out(LibraryError("interactive flow failed"), NoToken, file, mem,
              <<"app", "interactive">>)

\* get_microsoft_token: the same for the Microsoft token
GetMicrosoftToken(file, mem, cfg, ans) ==
  LET out(err, c, f, m, st) == [raised |-> err, creds |-> c, file |-> f, mem |-> m, steps |-> st]
  IN IF file.exists
     THEN out(NoError, file, file, file, <<"load">>)
     ELSE IF ~cfg.client_id \/ ~cfg.client_secret
     THEN out(MicrosoftConfigMissing, NoToken, file, mem, <<>>)
     ELSE IF ~ans.app_ok
     THEN out(LibraryError("authority not reachable"), NoToken, file, mem, <<"app">>)
     ELSE IF ans.accounts /\ ans.silent = "token"
     THEN out(NoError, FreshMicrosoft, FreshMicrosoft, FreshMicrosoft,
              <<"app", "accounts", "silent", "write">>)
     ELSE LET before == <<"app", "accounts">> \o (IF ans.accounts THEN <<"silent">> ELSE <<>>)
          IN IF ans.interactive = "token"
             THEN out(NoError, FreshMicrosoft, FreshMicrosoft, FreshMicrosoft,
                      before \o <<"interactive", "write">>)
             ELSE IF ans.interactive = "error"
             THEN out(AcquireFailed("Unknown error"),
                      NoToken, file, mem, before \o <<"interactive">>)
             ELSE out(LibraryError("interactive flow failed"),
                      NoToken, file, mem, before \o <<"interactive">>)

\* A check that also asks the stored token to be fresh
IsAuthenticatedFresh(provider, gfile, mfile) ==
  IF Lower(provider) = "google" THEN gfile.exists /\ ~gfile.expired
  ELSE IF Lower(provider) = "microsoft" THEN mfile.exists /\ ~mfile.expired
  ELSE FALSE

\* is_authenticated(provider): token_path.exists()
IsAuthenticated(provider, gfile, mfile) ==
  IF Lower(provider) = "google" THEN gfile.exists
  ELSE IF Lower(provider) = "microsoft" THEN mfile.exists
  ELSE FALSE

-----------------------------------------------------------------------------
(* main.py: oauth_login, check_auth_status, oauth_logout *)

\* Provider names as callers write them: the two providers, one of them with
\* a capital, "all", and a provider that is not supported
ProviderNames == {"google", "Microsoft", "all", "apple"}

AuthCall(name, provider) == [name |-> name, provider |-> provider]

UnsupportedLoginMsg(p) ==
  "Unsupported provider: " \o p \o ". Supported providers: google, microsoft"

GoogleLoginOkMsg == "Successfully authenticated with Google Calendar!"

GoogleLoginFailedMsg == "Failed to authenticate with Google Calendar. Please check credentials."

MicrosoftLoginOkMsg == "Successfully authenticated with Microsoft Outlook Calendar!"

MicrosoftLoginFailedMsg ==
  "Failed to authenticate with Microsoft Calendar. Please check credentials."

\* oauth_login: the three except clauses
LoginErrorMsg(err) ==
  IF err.kind \in {"FileNotFoundError", "ValueError"}
  THEN "Configuration error: " \o err.msg
  ELSE "Authentication failed: " \o err.msg

StatusWord(b) == IF b THEN CheckMark \o " Authenticated" ELSE CrossMark \o " Not authenticated"

\* check_auth_status: the text returned
StatusText(provider, gfile, mfile) ==
  LET p == Lower(provider)
  IN IF p = "all"
     THEN "Authentication Status:\n- Google: "
            \o StatusWord(IsAuthenticated("google", gfile, mfile))
            \o "\n- Microsoft: " \o StatusWord(IsAuthenticated("microsoft", gfile, mfile))
     ELSE IF p = "google"
     THEN "Google: " \o StatusWord(IsAuthenticated("google", gfile, mfile))
     ELSE IF p = "microsoft"
     THEN "Microsoft: " \o StatusWord(IsAuthenticated("microsoft", gfile, mfile))
     ELSE "Unknown provider: " \o p \o ". Use 'google', 'microsoft', or 'all'."

oauth_login(provider, ans) ==
  LET p == Lower(provider)
  IN /\ IF p \notin {"google", "microsoft"}
        THEN /\ ret' = UnsupportedLoginMsg(p)
             /\ steps' = <<>>
             /\ UNCHANGED <<google_file, microsoft_file, google_creds, microsoft_token>>
        ELSE IF p = "google"
        THEN LET r == GetGoogleCredentials(google_file, google_creds, config, ans)
             IN /\ ret' = IF r.raised.kind # "" THEN LoginErrorMsg(r.raised)
                          ELSE IF r.creds.exists /\ CredsValid(r.creds)
                          THEN GoogleLoginOkMsg ELSE GoogleLoginFailedMsg
                /\ google_file' = r.file
                /\ google_creds' = r.mem
                /\ steps' = r.steps
                /\ UNCHANGED <<microsoft_file, microsoft_token>>
        ELSE LET r == GetMicrosoftToken(microsoft_file, microsoft_token, config, ans)
             IN /\ ret' = IF r.raised.kind # "" THEN LoginErrorMsg(r.raised)
                          ELSE IF r.creds.exists /\ r.creds.access_token
                          THEN MicrosoftLoginOkMsg ELSE MicrosoftLoginFailedMsg
                /\ microsoft_file' = r.file
                /\ microsoft_token' = r.mem
                /\ steps' = r.steps
                /\ UNCHANGED <<google_file, google_creds>>
     /\ op' = AuthCall("oauth_login", provider)
     /\ prev' = Seen(op, ret)
     /\ UNCHANGED <<storeVars, icsVars, config, serverVars, handlerVars>>

check_auth_status(provider) ==
  /\ ret' = StatusText(provider, google_file, microsoft_file)
  /\ op' = AuthCall("check_auth_status", provider)
  /\ prev' = Seen(op, ret)
  /\ steps' = <<>>
  /\ UNCHANGED <<storeVars, icsVars, authVars, serverVars, handlerVars>>

\* A logout that forgets the held credential and leaves the token file
LogoutKeepsFile(file, mem) ==
  IF file.exists
  THEN [removed |-> TRUE, file |-> file, mem |-> NoToken]
  ELSE [removed |-> FALSE, file |-> file, mem |-> mem]

\* logout_google / logout_microsoft: if the token file is there it is removed,
\* the held credential forgotten and True returned; else False
Logout(file, mem) ==
  IF file.exists
  THEN [removed |-> TRUE, file |-> NoToken, mem |-> NoToken]
  ELSE [removed |-> FALSE, file |-> file, mem |-> mem]

GoogleLogoutOkMsg == "Successfully logged out from Google Calendar."

GoogleLogoutNoneMsg == "Not currently logged in to Google Calendar."

MicrosoftLogoutOkMsg == "Successfully logged out from Microsoft Outlook Calendar."

MicrosoftLogoutNoneMsg == "Not currently logged in to Microsoft Calendar."

\* oauth_logout that takes a provider it does not know for google
oauth_logout_default_google(provider) ==
  LET p == Lower(provider)
  IN /\ IF p = "microsoft"
        THEN LET r == Logout(microsoft_file, microsoft_token)
             IN /\ microsoft_file' = r.file
                /\ microsoft_token' = r.mem
                /\ ret' = IF r.removed THEN MicrosoftLogoutOkMsg ELSE MicrosoftLogoutNoneMsg
                /\ UNCHANGED <<google_file, google_creds>>
        ELSE LET r == Logout(google_file, google_creds)
             IN /\ google_file' = r.file
                /\ google_creds' = r.mem
                /\ ret' = IF r.removed THEN GoogleLogoutOkMsg ELSE GoogleLogoutNoneMsg
                /\ UNCHANGED <<microsoft_file, microsoft_token>>
     /\ op' = AuthCall("oauth_logout", provider)
     /\ prev' = Seen(op, ret)
     /\ steps' = <<>>
     /\ UNCHANGED <<storeVars, icsVars, config, serverVars, handlerVars>>

oauth_logout(provider) ==
  LET p == Lower(provider)
  IN /\ IF p = "google"
        THEN LET r == Logout(google_file, google_creds)
             IN /\ google_file' = r.file
                /\ google_creds' = r.mem
                /\ ret' = IF r.removed THEN GoogleLogoutOkMsg ELSE GoogleLogoutNoneMsg
                /\ UNCHANGED <<microsoft_file, microsoft_token>>
        ELSE IF p = "microsoft"
        THEN LET r == Logout(microsoft_file, microsoft_token)
             IN /\ microsoft_file' = r.file
                /\ microsoft_token' = r.mem
                /\ ret' = IF r.removed THEN MicrosoftLogoutOkMsg ELSE MicrosoftLogoutNoneMsg
                /\ UNCHANGED <<google_file, google_creds>>
        ELSE /\ ret' = "Unknown provider: " \o p \o ". Use 'google' or 'microsoft'."
             /\ UNCHANGED <<google_file, microsoft_file, google_creds, microsoft_token>>
     /\ op' = AuthCall("oauth_logout", provider)
     /\ prev' = Seen(op, ret)
     /\ steps' = <<>>
     /\ UNCHANGED <<storeVars, icsVars, config, serverVars, handlerVars>>

-----------------------------------------------------------------------------
(* calendar_api.py: CalendarAPI.  What the remote calendar service does with *)
(* one request: whether it can be reached, the HTTP status it answers with   *)
(* and whether the body of the answer is the event or cannot be read.        *)

Remote(net_ok, status, body) == [net_ok |-> net_ok, status |-> status, body |-> body]

Remotes ==
  { Remote(TRUE, 200, "event"), Remote(TRUE, 201, "event"), Remote(FALSE, 0, ""),
    Remote(TRUE, 401, "denied"), Remote(TRUE, 200, "malformed") }

\* The dict returned when the event was made
Created(link) == [success |-> TRUE, error |-> "", link |-> link]

\* The dict returned when it was not
NotCreated(error) == [success |-> FALSE, error |-> error, link |-> ""]

\* What a call of the API ends with: an exception raised to the caller, or a
\* dict returned
Ends(raised, result) == [raised |-> raised, result |-> result]

\* create_google_event, the statements inside try: build the service, insert
\* the event and execute the request; the client library raises for a service
\* it cannot reach, for a status that is not 2xx and for a body it cannot read
CreateGoogleEventTry(credentials, remote) ==
  IF ~remote.net_ok
  THEN Ends(LibraryError("Unable to reach googleapis.com"), NotCreated(""))
  ELSE IF remote.status \notin 200..299
  THEN Ends(LibraryError("HttpError " \o IntToStr(remote.status)), NotCreated(""))
  ELSE IF remote.body # "event"
  THEN Ends(LibraryError("Expecting value"), NotCreated(""))
  ELSE Ends(NoError, Created("htmlLink"))

\* create_google_event without its except clause
CreateGoogleEventNoExcept(credentials, remote) == CreateGoogleEventTry(credentials, remote)

\* create_google_event: except Exception returns the failure dict
CreateGoogleEvent(credentials, remote) ==
  LET t == CreateGoogleEventTry(credentials, remote)
  IN IF t.raised.kind # "" THEN Ends(NoError, NotCreated(t.raised.msg)) ELSE t

\* create_microsoft_event, the statements inside try: requests.post, then the
\* status is looked at, then response.json() is read
CreateMicrosoftEventTry(access_token, remote) ==
  IF ~remote.net_ok
  THEN Ends(LibraryError("ConnectionError"), NotCreated(""))
  ELSE IF remote.status \in {200, 201}
  THEN IF remote.body # "event"
       THEN Ends(LibraryError("Expecting value"), NotCreated(""))
       ELSE Ends(NoError, Created("webLink"))
  ELSE Ends(NoError, NotCreated("HTTP " \o IntToStr(remote.status) \o ": " \o remote.body))

\* create_microsoft_event: except Exception returns the failure dict
CreateMicrosoftEvent(access_token, remote) ==
  LET t == CreateMicrosoftEventTry(access_token, remote)
  IN IF t.raised.kind # "" THEN Ends(NoError, NotCreated(t.raised.msg)) ELSE t

-----------------------------------------------------------------------------
(* main.py: create_calendar_event *)

CreateCall(provider, title, date, start_time, end_time) ==
  [name |-> "create_calendar_event", provider |-> provider, title |-> title,
   date |-> date, start_time |-> start_time, end_time |-> end_time]

CreatedMsg(calendar, title, date, link) ==
  CheckMark \o " Event created in " \o calendar \o "!\nTitle: " \o title
    \o "\nDate: " \o date \o "\nLink: " \o link

NotCreatedMsg(calendar, error) == "Failed to create " \o calendar \o " event: " \o error

\* except Exception as e, in both branches
CreateErrorMsg(err) ==
  "Error: " \o err.msg \o ". Please authenticate first using oauth_login tool."

MicrosoftNotAuthenticatedMsg ==
  "Not authenticated with Microsoft. Please use oauth_login tool first."

UnsupportedCreateMsg(p) ==
  "Unsupported provider: " \o p
    \o ". Supported providers: google, microsoft. For other providers, use export_ics tool."

\* ans is what the OAuth libraries answer, remote what the calendar service does
create_calendar_event(provider, title, date, description, start_time, end_time, timezone, ans, remote) ==
  LET p == Lower(provider)
      untouched == UNCHANGED <<google_file, microsoft_file, google_creds, microsoft_token>>
  IN /\ IF ~StrptimeYmd(date)
        THEN ret' = InvalidDateMsg /\ steps' = <<>> /\ untouched
        ELSE IF ~(StrptimeHM(start_time) /\ StrptimeHM(end_time))
        THEN ret' = InvalidTimeMsg /\ steps' = <<>> /\ untouched
        ELSE IF p = "google"
        THEN LET r == GetGoogleCredentials(google_file, google_creds, config, ans)
                 e == CreateGoogleEvent(r.creds, remote)
             IN /\ google_file' = r.file
                /\ google_creds' = r.mem
                /\ UNCHANGED <<microsoft_file, microsoft_token>>
                /\ IF r.raised.kind # ""
                   THEN ret' = CreateErrorMsg(r.raised) /\ steps' = r.steps
                   ELSE /\ steps' = r.steps \o <<"insert">>
                        /\ ret' = IF e.raised.kind # "" THEN CreateErrorMsg(e.raised)
                                  ELSE IF e.result.success
                                  THEN CreatedMsg("Google Calendar", title, date, e.result.link)
                                  ELSE NotCreatedMsg("Google Calendar", e.result.error)
        ELSE IF p = "microsoft"
        THEN LET r == GetMicrosoftToken(microsoft_file, microsoft_token, config, ans)
                 e == CreateMicrosoftEvent(r.creds, remote)
             IN /\ microsoft_file' = r.file
                /\ microsoft_token' = r.mem
                /\ UNCHANGED <<google_file, google_creds>>
                /\ IF r.raised.kind # ""
                   THEN ret' = CreateErrorMsg(r.raised) /\ steps' = r.steps
                   ELSE IF ~(r.creds.exists /\ r.creds.access_token)
                   THEN ret' = MicrosoftNotAuthenticatedMsg /\ steps' = r.steps
                   ELSE /\ steps' = r.steps \o <<"post">>
                        /\ ret' = IF e.raised.kind # "" THEN CreateErrorMsg(e.raised)
                                  ELSE IF e.result.success
                                  THEN CreatedMsg("Microsoft Outlook Calendar", title, date,
                                                  e.result.link)
                                  ELSE NotCreatedMsg("Microsoft Calendar", e.result.error)
        ELSE ret' = UnsupportedCreateMsg(p) /\ steps' = <<>> /\ untouched
     /\ op' = CreateCall(provider, title, date, start_time, end_time)
     /\ prev' = Seen(op, ret)
     /\ UNCHANGED <<storeVars, icsVars, config, serverVars, handlerVars>>

\* Arguments that pass the two validations
GoodCreateInput == <<"Ab", "2026-01-01", "x", "09:00", "10:00">>

\* Arguments that fail the first or the second validation
BadCreateInputs ==
  { <<"Ab", "2026-13-01", "x", "09:00", "10:00">>,
    <<"Ab", "2026-01-01", "x", "24:00", "10:00">> }

\* Time passes: the access token in a token file reaches its expiry
token_expires(provider) ==
  /\ IF provider = "google"
     THEN /\ google_file.exists /\ ~google_file.expired
          /\ google_file' = [google_file EXCEPT !.expired = TRUE]
          /\ UNCHANGED microsoft_file
     ELSE /\ microsoft_file.exists /\ ~microsoft_file.expired
          /\ microsoft_file' = [microsoft_file EXCEPT !.expired = TRUE]
          /\ UNCHANGED google_file
  /\ UNCHANGED <<storeVars, icsVars, serverVars, handlerVars, op, ret, prev, steps, google_creds,
               microsoft_token, config>>

\* What the environment may supply
Configs ==
  { NoConfig,
    [credentials_json |-> TRUE, client_id |-> TRUE, client_secret |-> FALSE],
    [credentials_json |-> TRUE, client_id |-> TRUE, client_secret |-> TRUE] }

\* The process starts with whatever token files an earlier run left
InitAuth ==
  /\ InitProcess
  /\ google_file \in TokenStates
  /\ microsoft_file \in {NoToken, FreshMicrosoft}
  /\ config \in Configs
  /\ token_json = NoTokenJson

OauthLogin == \E p \in ProviderNames \ {"all"} : \E ans \in AnswersFor(p) : oauth_login(p, ans)

CheckAuthStatus == \E p \in ProviderNames : check_auth_status(p)

OauthLogout == \E p \in ProviderNames \ {"all"} : oauth_logout(p)

TokenExpires == \E p \in {"google", "microsoft"} : token_expires(p)

\* The calls of create_calendar_event with good arguments: every answer of the
\* OAuth libraries with a service that makes the event, and every other thing
\* the service may do with the answers that let the call reach it
CreateCases ==
  LET easy == [google |-> Answer(TRUE, "creds", TRUE, FALSE, "none", "token"),
               microsoft |-> Answer(TRUE, "creds", TRUE, FALSE, "none", "token")]
  IN { <<"google", ans, Remote(TRUE, 200, "event")>> : ans \in GoogleAnswers }
     \cup { <<"Microsoft", ans, Remote(TRUE, 201, "event")>> : ans \in MicrosoftAnswers }
     \cup { <<"google", easy.google, r>> : r \in Remotes }
     \cup { <<"Microsoft", easy.microsoft, r>> : r \in Remotes }
     \cup { <<"apple", easy.google, Remote(TRUE, 200, "event")>> }

CreateCalendarEvent ==
  \/ \E c \in CreateCases :
       LET a == GoodCreateInput
       IN create_calendar_event(c[1], a[1], a[2], a[3], a[4], a[5], "UTC", c[2], c[3])
  \/ \E p \in {"google", "apple"}, a \in BadCreateInputs :
       create_calendar_event(p, a[1], a[2], a[3], a[4], a[5], "UTC",
                             CHOOSE ans \in Answers : TRUE, CHOOSE r \in Remotes : TRUE)

NextAuth == OauthLogin \/ CheckAuthStatus \/ OauthLogout \/ TokenExpires \/ CreateCalendarEvent

\* The credential tools alone
SpecAuth == InitAuth /\ [][NextAuth]_vars

-----------------------------------------------------------------------------
(* All the tools of main.py in one process: the event store, the export and  *)
(* the credentials side by side, each tool called with a few arguments.      *)

\* The client configuration is complete and an earlier run may have left a
\* Google token file
InitTools ==
  /\ InitProcess
  /\ google_file \in {NoToken, FreshGoogle(TRUE)}
  /\ microsoft_file = NoToken
  /\ config = [credentials_json |-> TRUE, client_id |-> TRUE, client_secret |-> TRUE]
  /\ token_json = NoTokenJson

\* Two events whose dates are in the reverse of the order they are given in
ToolsAddInputs == { <<"Ab", "2026-03-01", "">>, <<"c", "2026-01-01", "x">> }

\* OAuth libraries that give a token at the first interactive attempt
ToolsAnswer == Answer(TRUE, "creds", TRUE, FALSE, "none", "token")

ToolsAddEvent == \E a \in ToolsAddInputs : add_event(a[1], a[2], a[3])

ToolsDeleteEvent == delete_event("ab")

ToolsOauthLogin == \E p \in {"google", "Microsoft"} : oauth_login(p, ToolsAnswer)

ToolsCheckAuthStatus == check_auth_status("all")

ToolsOauthLogout == \E p \in {"google", "Microsoft"} : oauth_logout(p)

ToolsCreateCalendarEvent ==
  \E p \in {"google", "Microsoft"} :
    LET a == GoodCreateInput
    IN create_calendar_event(p, a[1], a[2], a[3], a[4], a[5], "UTC", ToolsAnswer,
                             Remote(TRUE, 200, "event"))

ToolsExportIcs == export_ics("Ab", "2026-01-01", "", "09:00", "10:00", "UTC", now, TRUE)

NextTools ==
  \/ ToolsAddEvent
  \/ view_events
  \/ ToolsDeleteEvent
  \/ summarize_events
  \/ ToolsOauthLogin
  \/ ToolsCheckAuthStatus
  \/ ToolsOauthLogout
  \/ ToolsCreateCalendarEvent
  \/ ToolsExportIcs

\* The tools of main.py together
SpecTools == InitTools /\ [][NextTools]_vars

-----------------------------------------------------------------------------
(* The command interpreter behind the tool handle_message, after section    *)
(* 4.4 of the specification: eight rules tried in a fixed order on the       *)
(* message, keywords compared ignoring letter case.                          *)

RECURSIVE Strip(_)
\* the text without the blanks at its ends
Strip(t) ==
  IF t = "" THEN ""
  ELSE IF Head(t) = " " THEN Strip(Tail(t))
  ELSE IF Char(t, Len(t)) = " " THEN Strip(SubSeq(t, 1, Len(t) - 1))
  ELSE t

\* the text behind the first n characters
Drop(t, n) == SubSeq(t, n + 1, Len(t))

EndsWith(t, p) == Len(t) >= Len(p) /\ SubSeq(t, Len(t) - Len(p) + 1, Len(t)) = p

\* \d{4}-\d{2}-\d{2}
IsDatePattern(t) ==
  /\ Len(t) = 10
  /\ \A i \in {1, 2, 3, 4, 6, 7, 9, 10} : IsDigit(Char(t, i))
  /\ Char(t, 5) = "-" /\ Char(t, 8) = "-"

\* the places where a literal date starts
DatePlaces(t) == {k \in 1..(Len(t) - 9) : IsDatePattern(SubSeq(t, k, k + 9))}

Min(S) == CHOOSE x \in S : \A y \in S : x <= y

RECURSIVE SplitOn(_, _, _)
\* t.split(sep) for a separator of one character, cur is the field being read
SplitOn(t, sep, cur) ==
  IF t = "" THEN <<cur>>
  ELSE IF Head(t) = sep THEN <<cur>> \o SplitOn(Tail(t), sep, "")
  ELSE SplitOn(Tail(t), sep, cur \o Head(t))

Pad(n, width) ==
  LET d == IntToStr(n)
  IN SubSeq("0000", 1, width - Len(d)) \o d

\* the day after a date, written YYYY-MM-DD
NextDay(date) ==
  LET y == YearOf(date)
      m == MonthOf(date)
      d == DayOf(date)
  IN IF d < DaysInMonth(y, m) THEN Pad(y, 4) \o "-" \o Pad(m, 2) \o "-" \o Pad(d + 1, 2)
     ELSE IF m < 12 THEN Pad(y, 4) \o "-" \o Pad(m + 1, 2) \o "-01"
     ELSE Pad(y + 1, 4) \o "-01-01"

SummaryWords == {"summarize", "summary", "what's coming", "upcoming", "brief"}

AddVerbs == {"add", "create", "schedule"}

DeleteVerbs == {"delete", "remove", "cancel"}

DescriptionWords == {"about ", "desc:", "description:"}

\* the verb of V that the message starts with, followed by sep; "" if none
LeadingVerb(m, V, sep) ==
  IF \E v \in V : StartsWith(m, v \o sep)
  THEN CHOOSE v \in V : StartsWith(m, v \o sep)
  ELSE ""

\* the places where " on " or " for " is followed at once by a literal date
OnDatePlaces(m) ==
  {k \in 1..Len(m) : \E w \in {" on ", " for "} :
       /\ StartsWith(Drop(m, k - 1), w)
       /\ IsDatePattern(SubSeq(m, k + Len(w), k + Len(w) + 9))}

\* Rule k of the grammar matches the message (m is the message in lower case)
RuleMatches(k, m) ==
  CASE k = 1 -> \E w \in SummaryWords : Contains(m, w)
    [] k = 2 -> Contains(m, "list") \/ Contains(m, "events") \/ StartsWith(m, "what")
    [] k = 3 -> LeadingVerb(m, AddVerbs, ":") # ""
    [] k = 4 -> LeadingVerb(m, AddVerbs, " ") # "" /\ OnDatePlaces(m) # {}
    [] k = 5 -> /\ LeadingVerb(m, AddVerbs, " ") # ""
                /\ (EndsWith(m, " today") \/ EndsWith(m, " tomorrow"))
    [] k = 6 -> StartsWith(m, "delete:")
    [] k = 7 -> LeadingVerb(m, DeleteVerbs, " ") # ""
    [] OTHER -> TRUE

Parsed(rule, intent, title, date, description) ==
  [rule |-> rule, intent |-> intent, title |-> title, date |-> date,
   description |-> description]

\* Rule 2: list, or list_by_date when a literal date or a relative token is found
ParseList(msg, m, today) ==
  IF DatePlaces(m) # {}
  THEN Parsed(2, "list_by_date", "", SubSeq(m, Min(DatePlaces(m)), Min(DatePlaces(m)) + 9), "")
  ELSE IF Contains(m, "today") THEN Parsed(2, "list_by_date", "", today, "")
  ELSE IF Contains(m, "tomorrow") THEN Parsed(2, "list_by_date", "", NextDay(today), "")
  ELSE Parsed(2, "list", "", "", "")

\* Rule 3: verb:title|date|description
ParseShorthandAdd(msg, m) ==
  LET payload == Drop(msg, Len(LeadingVerb(m, AddVerbs, ":")) + 1)
      f == SplitOn(payload, "|", "")
  IN IF Len(f) < 2 THEN Parsed(3, "malformed", "", "", "")
     ELSE Parsed(3, "add", Strip(f[1]), Strip(f[2]),
                 IF Len(f) >= 3 THEN Strip(f[3]) ELSE "")

\* Rule 4: verb title (on|for) date [(about|desc:|description:) text]
ParseAddOnDate(msg, m) ==
  LET v == LeadingVerb(m, AddVerbs, " ")
      k == Min(OnDatePlaces(m))
      w == IF StartsWith(Drop(m, k - 1), " on ") THEN " on " ELSE " for "
      d == k + Len(w)
      rest == Strip(Drop(msg, d + 9))
      lrest == Lower(rest)
      intro == IF \E x \in DescriptionWords : StartsWith(lrest, x)
               THEN CHOOSE x \in DescriptionWords : StartsWith(lrest, x) ELSE ""
  IN Parsed(4, "add", Strip(SubSeq(msg, Len(v) + 1, k - 1)), SubSeq(msg, d, d + 9),
            IF intro = "" THEN "" ELSE Strip(Drop(rest, Len(intro))))

\* Rule 5: verb title (today|tomorrow)
ParseAddRelative(msg, m, today) ==
  LET v == LeadingVerb(m, AddVerbs, " ")
      tok == IF EndsWith(m, " today") THEN "today" ELSE "tomorrow"
  IN Parsed(5, "add", Strip(SubSeq(msg, Len(v) + 1, Len(msg) - Len(tok))),
            IF tok = "today" THEN today ELSE NextDay(today), "")

\* Rule 7: verb [the] [event] title
ParseDelete(msg, m) ==
  LET v == LeadingVerb(m, DeleteVerbs, " ")
      a == Strip(Drop(msg, Len(v)))
      b == IF StartsWith(Lower(a), "the ") THEN Strip(Drop(a, 4)) ELSE a
      c == IF StartsWith(Lower(b), "event ") THEN Strip(Drop(b, 6)) ELSE b
  IN Parsed(7, "delete", c, "", "")

\* Rules 3 to 8, tried when neither the summary nor the list keywords occur
InterpretCommand(msg, m, today) ==
  IF RuleMatches(3, m) THEN ParseShorthandAdd(msg, m)
  ELSE IF RuleMatches(4, m) THEN ParseAddOnDate(msg, m)
  ELSE IF RuleMatches(5, m) THEN ParseAddRelative(msg, m, today)
  ELSE IF RuleMatches(6, m) THEN Parsed(6, "delete", Strip(Drop(msg, 7)), "", "")
  ELSE IF RuleMatches(7, m) THEN ParseDelete(msg, m)
  ELSE Parsed(8, "unknown", "", "", "")

\* The interpreter with the list keywords looked at before the summary keywords
InterpretListFirst(msg, today) ==
  LET m == Lower(msg)
  IN IF RuleMatches(2, m) THEN ParseList(msg, m, today)
     ELSE IF RuleMatches(1, m) THEN Parsed(1, "summarize", "", "", "")
     ELSE InterpretCommand(msg, m, today)

\* The interpreter: the first rule that matches decides
Interpret(msg, today) ==
  LET m == Lower(msg)
  IN IF RuleMatches(1, m) THEN Parsed(1, "summarize", "", "", "")
     ELSE IF RuleMatches(2, m) THEN ParseList(msg, m, today)
     ELSE InterpretCommand(msg, m, today)

HelpMsg == "I did not understand. Try: add:Title|YYYY-MM-DD|Description, list events, delete:Title"

MalformedShorthandMsg == "Malformed shorthand. Use add:Title|YYYY-MM-DD|Description"

\* list_by_date: the events of exactly that date
ListByDateText(evs, date) ==
  LET hit == SelectSeq(evs, LAMBDA e : e.date = date)
  IN IF hit = <<>> THEN "No events found for " \o date \o "."
     ELSE "Events on " \o date \o ":\n" \o ViewBody(hit)

\* What handling a message does to the store and what it returns
MessageEffect(evs, msg, today) ==
  LET c == Interpret(msg, today)
      out(e, r) == [events |-> e, ret |-> r, parsed |-> c]
  IN CASE c.intent = "summarize" -> out(evs, SummaryText(evs))
       [] c.intent = "list" -> out(evs, ViewText(evs))
       [] c.intent = "list_by_date" -> out(evs, ListByDateText(evs, c.date))
       [] c.intent = "add" ->
            IF AddEventOk(c.date)
            THEN out(AddEventStore(evs, c.title, c.date, c.description),
                     AddedMsg(c.title, c.date))
            ELSE out(evs, InvalidDateMsg)
       [] c.intent = "delete" ->
            out(DeleteFilter(evs, c.title),
                DeleteText(evs, DeleteFilter(evs, c.title), c.title))
       [] c.intent = "malformed" -> out(evs, MalformedShorthandMsg)
       [] OTHER -> out(evs, HelpMsg)

\* The messages sent: every rule, both spellings of an add, messages that match
\* more than one rule, dates that do not exist
Messages ==
  { "summarize events on 2026-01-01",
    "what's coming tomorrow",
    "list events",
    "What is on 2026-05-04",
    "add:Team events|2026-05-04|x",
    "add:Launch|2026-05-04|Rocket day",
    "Add Launch on 2026-05-04 about Rocket day",
    "schedule:Demo|2026-13-45|x",
    "Create Demo for 2026-13-45 desc: x",
    "add:Launch",
    "Add Standup tomorrow",
    "delete:launch",
    "Remove the event Standup",
    "hello" }

\* The local dates a message is evaluated on
Todays == {"2026-02-28", "2026-12-31"}

MessageCall(msg, c) ==
  [name |-> "handle_message", title |-> c.title, message |-> msg,
   rule |-> c.rule, intent |-> c.intent, date |-> c.date, description |-> c.description]

handle_message(msg, today) ==
  LET eff == MessageEffect(events, msg, today)
  IN /\ Len(eff.events) <= MaxEvents
     /\ events' = eff.events
     /\ ret' = eff.ret
     /\ op' = MessageCall(msg, eff.parsed)
     /\ prev' = Seen(op, ret)
     /\ steps' = <<>>
     /\ UNCHANGED <<icsVars, authVars, serverVars, handlerVars>>

HandleMessage == \E msg \in Messages, today \in Todays : handle_message(msg, today)

NextMsg == HandleMessage

\* The command interpreter alone
SpecMsg == Init /\ [][NextMsg]_vars

-----------------------------------------------------------------------------
(* main.py as a program: the decorators register the tools in the order of   *)
(* the file, and mcp.run() stands between the store tools and the others.    *)
(* api/mcp.py: the handler that calls a tool by name for an HTTP request.    *)

\* Lines 13 to 83: the server object, the managers, the store and its tools
load_store_tools ==
  /\ phase = "start"
  /\ tools' = tools \cup StoreTools
  /\ prompts' = prompts \cup StorePrompts
  /\ phase' = "store_loaded"
  /\ UNCHANGED <<storeVars, icsVars, authVars, handlerVars, op, ret, prev, steps, response>>

\* Lines 85 and 86, main.py run as a script: mcp.run() serves until its
\* transport closes
mcp_run ==
  /\ phase = "store_loaded"
  /\ phase' = "serving_stdio"
  /\ UNCHANGED <<storeVars, icsVars, authVars, handlerVars, op, ret, prev, steps, tools, prompts, response>>

\* mcp.run() returns
mcp_run_returns ==
  /\ phase = "serving_stdio"
  /\ phase' = "after_run"
  /\ UNCHANGED <<storeVars, icsVars, authVars, handlerVars, op, ret, prev, steps, tools, prompts, response>>

\* Lines 88 to 302: the remaining tools; reached at once when main is imported
\* (api/mcp.py, line 50), and after mcp.run() has returned when it is a script
load_remote_tools ==
  /\ phase \in {"store_loaded", "after_run"}
  /\ tools' = tools \cup RemoteTools
  /\ phase' = IF phase = "store_loaded" THEN "imported" ELSE "exited"
  /\ UNCHANGED <<storeVars, icsVars, authVars, handlerVars, op, ret, prev, steps, prompts, response>>

\* The server answers calls: mcp.run() is running, or the handler is deployed
Serving == phase \in {"serving_stdio", "imported"}

\* The arguments of a call: the keys given and their values
Input(keys, title, date, description, provider) ==
  [keys |-> keys, title |-> title, date |-> date, description |-> description,
   provider |-> provider]

NoInput == Input({}, "", "", "", "")

\* The parameters of a tool that have no default
RequiredArgs(name) ==
  CASE name = "add_event" -> {"title", "date"}
    [] name = "delete_event" -> {"title"}
    [] name \in {"oauth_login", "oauth_logout"} -> {"provider"}
    [] name = "create_calendar_event" -> {"provider", "title", "date"}
    [] name = "export_ics" -> {"title", "date"}
    [] OTHER -> {}

ToolError(msg) == [kind |-> "ToolError", msg |-> msg]

ToolEnds(raised, text, evs) == [raised |-> raised, text |-> text, events |-> evs]

\* mcp.call_tool(name, input): the tool registered under the name is called
\* with the arguments; a name that is not registered and arguments that do not
\* fit the signature raise
CallTool(name, input, regs, evs, gfile, mfile) ==
  IF name \notin regs
  THEN ToolEnds(ToolError("Unknown tool: " \o name), "", evs)
  ELSE IF ~(RequiredArgs(name) \subseteq input.keys)
  THEN ToolEnds(ToolError("Error executing tool " \o name \o ": Field required"), "", evs)
  ELSE CASE name = "add_event" ->
              IF AddEventOk(input.date)
              THEN ToolEnds(NoError, AddedMsg(input.title, input.date),
                            AddEventStore(evs, input.title, input.date, input.description))
              ELSE ToolEnds(NoError, InvalidDateMsg, evs)
         [] name = "view_events" -> ToolEnds(NoError, ViewText(evs), evs)
         [] name = "delete_event" ->
              ToolEnds(NoError, DeleteText(evs, DeleteFilter(evs, input.title), input.title),
                       DeleteFilter(evs, input.title))
         [] name = "check_auth_status" ->
              ToolEnds(NoError,
                       StatusText(IF "provider" \in input.keys THEN input.provider ELSE "all",
                                  gfile, mfile), evs)
         [] OTHER -> ToolEnds(ToolError("Error executing tool " \o name), "", evs)

RECURSIVE Escaped(_, _)
\* the characters of t with the quote q, the backslash and the line break escaped
Escaped(t, q) ==
  IF t = "" THEN ""
  ELSE IF Len(t) = 1
  THEN (IF t = q THEN "\\" \o q
        ELSE IF t = "\\" THEN "\\\\"
        ELSE IF t = "\n" THEN "\\n"
        ELSE t)
  ELSE LET half == Len(t) \div 2
       IN Escaped(SubSeq(t, 1, half), q) \o Escaped(SubSeq(t, half + 1, Len(t)), q)

\* json.dumps of a str
JsonString(t) == "\"" \o Escaped(t, "\"") \o "\""

\* json.dumps({key: value})
JsonObject(key, value) == "{" \o JsonString(key) \o ": " \o JsonString(value) \o "}"

\* repr of a str: single quotes unless the text holds one and no double quote
Repr(t) ==
  IF Contains(t, "'") /\ ~Contains(t, "\"")
  THEN "\"" \o Escaped(t, "\"") \o "\""
  ELSE "'" \o Escaped(t, "'") \o "'"

\* What call_tool may return for a tool that returned the text t, by the
\* version of the library: one content object with the attribute text, the
\* sequence of content objects, or the pair of that sequence and the mapping
\* {"result": t}
ResultShapes == {"content", "sequence", "pair"}

\* str(result) of a result that has no attribute text
StrOfResult(shape, t) ==
  LET seq == "[TextContent(type='text', text=" \o Repr(t) \o ", annotations=None)]"
  IN IF shape = "sequence" THEN seq
     ELSE "(" \o seq \o ", {'result': " \o Repr(t) \o "})"

\* Lines 122 to 126: result.text if the result has that attribute, else str(result)
Unwrap(shape, t) == IF shape = "content" THEN t ELSE StrOfResult(shape, t)

Request(method, json, has_tool, tool, input) ==
  [method |-> method, json |-> json, has_tool |-> has_tool, tool |-> tool, input |-> input]

Reply(statusCode, key, text) == [statusCode |-> statusCode, body |-> JsonObject(key, text)]

\* The requests sent: a method that is not POST, no body, a body that is a
\* list, an object without a tool name or with an empty one, the request of
\* test_local.py, arguments that miss one or carry a date that does not parse,
\* the other store tools, a prompt, names that are not registered
Requests ==
  LET demo == Input({"title", "date", "description"}, "Demo", "2026-01-01", "Test event", "")
  IN { Request("GET", "object", TRUE, "add_event", demo),
       Request("POST", "none", FALSE, "", NoInput),
       Request("POST", "list", FALSE, "", NoInput),
       Request("POST", "object", FALSE, "", NoInput),
       Request("POST", "object", TRUE, "", NoInput),
       Request("POST", "object", TRUE, "add_event", demo),
       Request("POST", "object", TRUE, "add_event", Input({"title"}, "Demo", "", "", "")),
       Request("POST", "object", TRUE, "add_event",
               Input({"title", "date"}, "Late", "2026-13-01", "", "")),
       Request("POST", "object", TRUE, "view_events", NoInput),
       Request("POST", "object", TRUE, "delete_event", Input({"title"}, "demo", "", "", "")),
       Request("POST", "object", TRUE, "check_auth_status", NoInput),
       Request("POST", "object", TRUE, "summarize_events", NoInput),
       Request("POST", "object", TRUE, "handle_message", NoInput),
       Request("POST", "object", TRUE, "nope", NoInput) }

HandlerCall(request) ==
  [name |-> "handler", title |-> request.tool, method |-> request.method,
   json |-> request.json, has_tool |-> request.has_tool, input |-> request.input]

\* The handler without the test of the tool name: the call is made with
\* whatever name the payload holds
HandlerResponseNoNameTest(request, shape, r) ==
  IF request.method # "POST" THEN Reply(405, "error", "Method not allowed")
  ELSE IF request.json = "list"
  THEN Reply(500, "error", "'list' object has no attribute 'get'")
  ELSE IF r.raised.kind # "" THEN Reply(500, "error", r.raised.msg)
  ELSE Reply(200, "result", Unwrap(shape, r.text))

\* Lines 92 to 140: the response for a request, r being what call_tool ends with
HandlerResponse(request, shape, r) ==
  IF request.method # "POST" THEN Reply(405, "error", "Method not allowed")
  ELSE IF request.json = "list"
  THEN Reply(500, "error", "'list' object has no attribute 'get'")
  ELSE IF request.json = "none" \/ ~request.has_tool \/ request.tool = ""
  THEN Reply(400, "error", "Missing tool name")
  ELSE IF r.raised.kind # "" THEN Reply(500, "error", r.raised.msg)
  ELSE Reply(200, "result", Unwrap(shape, r.text))

\* api/mcp.py: handler(request).  shape is the kind of value call_tool returns.
handler(request, shape) ==
  LET r == CallTool(request.tool, request.input, tools, events, google_file, microsoft_file)
      called == /\ request.method = "POST" /\ request.json = "object"
                /\ request.has_tool /\ request.tool # ""
  IN /\ phase = "imported"
     /\ Len(r.events) <= MaxEvents
     /\ response' = HandlerResponse(request, shape, r)
     /\ events' = IF called THEN r.events ELSE events
     /\ ret' = IF called /\ r.raised.kind = "" THEN r.text ELSE ""
     /\ op' = HandlerCall(request)
     /\ prev' = Seen(op, ret)
     /\ steps' = <<>>
     /\ UNCHANGED <<icsVars, authVars, handlerVars, tools, prompts, phase>>

\* A tools/call request answered by mcp.run()
serve_call_tool(name, input) ==
  LET r == CallTool(name, input, tools, events, google_file, microsoft_file)
  IN /\ phase = "serving_stdio"
     /\ Len(r.events) <= MaxEvents
     /\ events' = r.events
     /\ ret' = IF r.raised.kind = "" THEN r.text ELSE r.raised.msg
     /\ op' = [name |-> "call_tool", title |-> name]
     /\ prev' = Seen(op, ret)
     /\ steps' = <<>>
     /\ UNCHANGED <<icsVars, authVars, serverVars, handlerVars>>

\* The interpreter starts on main.py
InitHttp ==
  /\ InitState
  /\ google_file \in {NoToken, FreshGoogle(TRUE)}
  /\ microsoft_file = NoToken
  /\ config = NoConfig
  /\ token_json = NoTokenJson
  /\ tools = {}
  /\ prompts = {}
  /\ phase = "start"

LoadStoreTools == load_store_tools

McpRun == mcp_run

McpRunReturns == mcp_run_returns

LoadRemoteTools == load_remote_tools

Handler == \E request \in Requests, shape \in ResultShapes : handler(request, shape)

ServeCallTool ==
  \E request \in {q \in Requests : q.method = "POST" /\ q.has_tool /\ q.tool # ""} :
    serve_call_tool(request.tool, request.input)

NextHttp ==
  \/ LoadStoreTools
  \/ McpRun
  \/ McpRunReturns
  \/ LoadRemoteTools
  \/ Handler
  \/ ServeCallTool

\* main.py run as a script or imported by the HTTP handler
SpecHttp == InitHttp /\ [][NextHttp]_vars

-----------------------------------------------------------------------------
(* oauth_handler.py: OAuthHandler.  A credential is a record: whether it is  *)
(* there, whether creds.valid holds, and the authorization code or the file  *)
(* it came from.  token.json is absent, holds a token that loads as valid or *)
(* as expired, or cannot be read as an authorized-user file.                 *)

Credential(valid, origin) == [present |-> TRUE, valid |-> valid, origin |-> origin]

UserInfo == [present |-> TRUE]

TokenJson(kind, origin) == [kind |-> kind, origin |-> origin]

\* The token.json files an earlier run or another program may have left
TokenJsonStates ==
  { NoTokenJson, TokenJson("valid", "file"), TokenJson("expired", "file"),
    TokenJson("malformed", "file") }

\* _save_credentials: the token is written without its expiry, so what is
\* read back from the file is valid
SaveCredentials(c) == TokenJson("valid", c.origin)

\* What the libraries and the file system do during one call: whether
\* credentials.json can be read, whether the code is exchanged for a token,
\* whether token.json can be opened for writing, whether the profile is fetched
HandlerAnswers ==
  [secrets_ok : BOOLEAN, fetch_ok : BOOLEAN, save_ok : BOOLEAN, info_ok : BOOLEAN]

\* The authorization codes the handler is given
AuthCodes == {"code1", "code2"}

HandlerEnds(raised, c, info, file) ==
  [raised |-> raised, credentials |-> c, user_info |-> info, token_json |-> file]

\* _fetch_user_info: the profile is stored if it could be fetched, else nothing
FetchUserInfo(info, lib) == IF lib.info_ok THEN UserInfo ELSE info

\* exchange_code_for_token: the body of the try
ExchangeCodeForTokenTry(c, info, file, auth_code, lib) ==
  IF ~lib.secrets_ok THEN HandlerEnds(TRUE, c, info, file)
  ELSE IF ~lib.fetch_ok THEN HandlerEnds(TRUE, c, info, file)
  ELSE LET new == Credential(TRUE, auth_code)
       IN IF ~lib.save_ok THEN HandlerEnds(TRUE, new, info, file)
          ELSE HandlerEnds(FALSE, new, FetchUserInfo(info, lib), SaveCredentials(new))

\* exchange_code_for_token: True if the try ended, False from the except clause
ExchangeCodeForToken(c, info, file, auth_code, lib) ==
  LET t == ExchangeCodeForTokenTry(c, info, file, auth_code, lib)
  IN [returned |-> ~t.raised, raised |-> FALSE, credentials |-> t.credentials,
      user_info |-> t.user_info, token_json |-> t.token_json]

\* load_credentials
LoadCredentials(c, info, file, lib) ==
  IF file.kind \in {"absent", "malformed"}
  THEN [returned |-> FALSE, raised |-> FALSE, credentials |-> c, user_info |-> info,
        token_json |-> file]
  ELSE LET loaded == Credential(file.kind = "valid", file.origin)
       IN IF loaded.valid
          THEN [returned |-> TRUE, raised |-> FALSE, credentials |-> loaded,
                user_info |-> FetchUserInfo(info, lib), token_json |-> file]
          ELSE [returned |-> FALSE, raised |-> FALSE, credentials |-> loaded,
                user_info |-> info, token_json |-> file]

\* is_authenticated of the handler
HandlerIsAuthenticated(c) == c.present /\ c.valid

MethodCall(name, auth_code) == [name |-> name, title |-> auth_code]

\* What a call of a method of the handler leaves alone
HandlerFrame ==
  /\ prev' = Seen(op, ret)
  /\ ret' = ""
  /\ steps' = <<>>
  /\ UNCHANGED <<storeVars, icsVars, authVars, serverVars>>

exchange_code_for_token(auth_code, lib) ==
  LET r == ExchangeCodeForToken(handler_credentials, user_info, token_json, auth_code, lib)
  IN /\ handler_credentials' = r.credentials
     /\ user_info' = r.user_info
     /\ token_json' = r.token_json
     /\ outcome' = [returned |-> r.returned, raised |-> r.raised]
     /\ op' = MethodCall("exchange_code_for_token", auth_code)
     /\ HandlerFrame

load_credentials(lib) ==
  LET r == LoadCredentials(handler_credentials, user_info, token_json, lib)
  IN /\ handler_credentials' = r.credentials
     /\ user_info' = r.user_info
     /\ token_json' = r.token_json
     /\ outcome' = [returned |-> r.returned, raised |-> r.raised]
     /\ op' = MethodCall("load_credentials", "")
     /\ HandlerFrame

is_authenticated ==
  /\ outcome' = [returned |-> HandlerIsAuthenticated(handler_credentials), raised |-> FALSE]
  /\ op' = MethodCall("is_authenticated", "")
  /\ UNCHANGED <<handler_credentials, user_info, token_json>>
  /\ HandlerFrame

\* Time passes: the access token of the held credentials reaches its expiry
credentials_expire ==
  /\ handler_credentials.present /\ handler_credentials.valid
  /\ handler_credentials' = [handler_credentials EXCEPT !.valid = FALSE]
  /\ UNCHANGED <<storeVars, icsVars, authVars, serverVars, op, ret, prev, steps,
                 user_info, token_json, outcome>>

\* A freshly constructed handler, and whatever token.json there is
InitHandler ==
  /\ InitProcess
  /\ google_file = NoToken
  /\ microsoft_file = NoToken
  /\ config = NoConfig
  /\ token_json \in TokenJsonStates

ExchangeCodeForTokenCall ==
  \E auth_code \in AuthCodes, lib \in HandlerAnswers : exchange_code_for_token(auth_code, lib)

LoadCredentialsCall == \E lib \in HandlerAnswers : load_credentials(lib)

NextHandler ==
  \/ ExchangeCodeForTokenCall
  \/ LoadCredentialsCall
  \/ is_authenticated
  \/ credentials_expire

\* The OAuth handler alone
SpecHandler == InitHandler /\ [][NextHandler]_vars

-----------------------------------------------------------------------------
(* What the claims speak of, stated without the code's own parser or sort *)

\* s is a real calendar date written as YYYY-MM-DD: four, two and two digits
\* between hyphens, a month 01..12 and a day that month has
IsIsoDate(s) ==
  /\ Len(s) = 10
  /\ \A i \in {1, 2, 3, 4, 6, 7, 9, 10} : IsDigit(Char(s, i))
  /\ Char(s, 5) = "-" /\ Char(s, 8) = "-"
  /\ LET y == ToInt(SubSeq(s, 1, 4))
         m == ToInt(SubSeq(s, 6, 7))
         d == ToInt(SubSeq(s, 9, 10))
     IN /\ y >= 1
        /\ m \in 1..12
        /\ d >= 1 /\ d <= DaysInMonth(y, m)

\* The day a stored date denotes, as a number that grows with the calendar
DateKey(s) == YearOf(s) * 10000 + MonthOf(s) * 100 + DayOf(s)

\* The indices of evs in ascending calendar order, equal days in insertion order
CalendarOrder(evs) ==
  CHOOSE p \in Permutations(1..Len(evs)) :
    \A i, j \in 1..Len(evs) :
      i < j => \/ DateKey(evs[p[i]].date) < DateKey(evs[p[j]].date)
               \/ /\ DateKey(evs[p[i]].date) = DateKey(evs[p[j]].date)
                  /\ p[i] < p[j]

InCalendarOrder(evs) == [i \in 1..Len(evs) |-> evs[CalendarOrder(evs)[i]]]

\* The lines of a listing behind its heading
EventLines(text) == Tail(Lines(text))

-----------------------------------------------------------------------------
(* C1 *)

\* C1: whenever add_event is called with a date that is not a real calendar
\* date in YYYY-MM-DD form, it returns the invalid-date message and the store
\* is the same sequence of events as before the call.
C1_MalformedDateRejected ==
  [][ (op'.name = "add_event" /\ ~IsIsoDate(op'.date))
        => (ret' = InvalidDateMsg /\ events' = events) ]_vars

\* What the code does hold to: a date its own parser rejects changes nothing.
C1_ParserRejectedUnchanged ==
  [][ (op'.name = "add_event" /\ ~StrptimeYmd(op'.date))
        => (ret' = InvalidDateMsg /\ events' = events) ]_vars

-----------------------------------------------------------------------------
(* C2 *)

\* C2: in every reachable state every stored event's date is a syntactically
\* valid YYYY-MM-DD calendar date.
C2_StoredDatesIso == \A i \in 1..Len(events) : IsIsoDate(events[i].date)

-----------------------------------------------------------------------------
(* C3 *)

-----------------------------------------------------------------------------
(* C4 *)

\* C4: the event lines of view_events and of summarize_events are in ascending
\* date order, events of equal date in their insertion order.
C4_ListedInDateOrder ==
  /\ (op.name = "view_events" /\ events # <<>>)
       => ret = "Calendar Events:\n" \o ViewBody(InCalendarOrder(events))
  /\ (op.name = "summarize_events" /\ events # <<>>)
       => ret = "Upcoming Events Summary:\n" \o SummaryBody(InCalendarOrder(events))

\* The order is the calendar's as long as every stored date is zero-padded.
C4_DateOrderWhenIso ==
  (\A i \in 1..Len(events) : IsIsoDate(events[i].date)) => C4_ListedInDateOrder

-----------------------------------------------------------------------------
(* C5 *)

\* C5: delete_event(title) removes exactly the events whose title equals the
\* argument ignoring letter case, all of them, keeps the others in their order,
\* and returns the deleted text iff at least one event was removed, else the
\* not-found text.
C5_DeleteRemovesAllMatches ==
  [][ op'.name = "delete_event" =>
        LET t == op'.title
            match(e) == Lower(e.title) = Lower(t)
        IN /\ events' = SelectSeq(events, LAMBDA e : ~match(e))
           /\ (ret' = DeletedMsg(t)) <=> (\E i \in 1..Len(events) : match(events[i]))
           /\ (ret' = NotFoundMsg(t)) <=> ~(\E i \in 1..Len(events) : match(events[i])) ]_vars

\* A delete removed something, its title is gone in every spelling, and an
\* event of another title is still stored.
C5_Witness ==
  /\ op.name = "delete_event"
  /\ ret = DeletedMsg(op.title)
  /\ events # <<>>
  /\ \A i \in 1..Len(events) : Lower(events[i].title) # Lower(op.title)

-----------------------------------------------------------------------------
(* C6 *)

\* C6: a delete_event of a title that is in the store returns the deleted text;
\* the same call made again right after returns the not-found text and leaves
\* the store as the first call left it.
C6_SecondDeleteNotFound ==
  /\ [][ (op'.name = "delete_event"
            /\ \E i \in 1..Len(events) : events[i].title = op'.title)
           => ret' = DeletedMsg(op'.title) ]_vars
  /\ [][ (op.name = "delete_event" /\ ret = DeletedMsg(op.title)
            /\ op'.name = "delete_event" /\ op'.title = op.title)
           => (ret' = NotFoundMsg(op.title) /\ events' = events) ]_vars

\* The same title was deleted twice in a row: found the first time, not the second.
C6_Witness ==
  /\ op.name = "delete_event"
  /\ prev.name = "delete_event" /\ prev.title = op.title /\ prev.ok
  /\ ret = NotFoundMsg(op.title)

-----------------------------------------------------------------------------
(* C9 *)

\* C9: two export_ics calls with the same title and date produce two distinct
\* files: the second does not overwrite the first, and after both calls both
\* exported files exist with their own content.
C9_RepeatedExportDistinctFiles ==
  \A i, j \in 1..Len(exported) :
    (i < j /\ exported[i].title = exported[j].title
           /\ exported[i].date = exported[j].date)
      => /\ exported[i].file_path # exported[j].file_path
         /\ [path |-> exported[i].file_path, content |-> exported[i].content] \in files
         /\ [path |-> exported[j].file_path, content |-> exported[j].content] \in files

\* What the code does instead: one file per date and sanitized title, holding
\* what the latest export of that name wrote.
C9_LatestExportKept ==
  /\ \A f, g \in files : f.path = g.path => f = g
  /\ \A i \in 1..Len(exported) :
       \E f \in files :
         /\ f.path = exported[i].file_path
         /\ \E j \in i..Len(exported) :
              /\ exported[j].file_path = f.path
              /\ exported[j].content = f.content
              /\ \A k \in (j + 1)..Len(exported) : exported[k].file_path # f.path

-----------------------------------------------------------------------------
(* C10 *)

\* C10: in every reachable state is_authenticated(provider) is true exactly
\* when the token file of that provider exists, whether the token in it has
\* expired or not, and false for every name that is neither google nor
\* microsoft (names are taken ignoring letter case, as the code takes them);
\* check_auth_status reports exactly that.
C10_AuthenticatedIffTokenFile ==
  /\ \A p \in {"google", "Google", "GOOGLE"} :
       IsAuthenticated(p, google_file, microsoft_file) = google_file.exists
  /\ \A p \in {"microsoft", "Microsoft"} :
       IsAuthenticated(p, google_file, microsoft_file) = microsoft_file.exists
  /\ \A p \in {"all", "apple", "ics", "", "google ", "googlemicrosoft"} :
       ~IsAuthenticated(p, google_file, microsoft_file)
  /\ (op.name = "check_auth_status" /\ Lower(op.provider) = "google")
       => ret = "Google: " \o (IF google_file.exists THEN CheckMark \o " Authenticated"
                               ELSE CrossMark \o " Not authenticated")
  /\ (op.name = "check_auth_status" /\ Lower(op.provider) = "microsoft")
       => ret = "Microsoft: " \o (IF microsoft_file.exists THEN CheckMark \o " Authenticated"
                                  ELSE CrossMark \o " Not authenticated")
  /\ (op.name = "check_auth_status" /\ Lower(op.provider) = "all")
       => /\ Contains(ret, "Google: " \o CheckMark) <=> google_file.exists
          /\ Contains(ret, "Microsoft: " \o CheckMark) <=> microsoft_file.exists

\* check_auth_status reported a provider authenticated whose stored token had
\* expired and could not be refreshed.
C10_Witness ==
  /\ op.name = "check_auth_status" /\ op.provider = "google"
  /\ google_file.exists /\ google_file.expired /\ ~google_file.refresh
  /\ ret = "Google: " \o CheckMark \o " Authenticated"

-----------------------------------------------------------------------------
(* C7, C8: the command interpreter *)

\* The lowest-numbered rule of the grammar whose condition the message matches
FirstMatchingRule(msg) == Min({k \in 1..8 : RuleMatches(k, Lower(msg))})

\* The intents a rule resolves to
RuleIntents(k) ==
  CASE k = 1 -> {"summarize"}
    [] k = 2 -> {"list", "list_by_date"}
    [] k = 3 -> {"add", "malformed"}
    [] k \in {4, 5} -> {"add"}
    [] k \in {6, 7} -> {"delete"}
    [] OTHER -> {"unknown"}

\* C7: every message handled is resolved by the lowest-numbered rule that
\* matches it, to an intent of that rule; a message holding a summary keyword
\* is summarized, whatever list keyword or date it also holds, and the answer
\* is the summary of the store.
C7_FirstMatchWins ==
  op.name = "handle_message" =>
    /\ op.rule = FirstMatchingRule(op.message)
    /\ op.intent \in RuleIntents(op.rule)
    /\ RuleMatches(1, Lower(op.message)) =>
         /\ op.intent = "summarize"
         /\ op.intent \notin {"list", "list_by_date"}
         /\ ret = SummaryText(events)

\* "summarize events on 2026-01-01", which also holds the list keyword "events"
\* and a date, was handled on a store with an event of that date and answered
\* with the summary.
C7_Witness ==
  /\ op.name = "handle_message"
  /\ op.message = "summarize events on 2026-01-01"
  /\ RuleMatches(2, Lower(op.message))
  /\ DatePlaces(op.message) # {}
  /\ op.intent = "summarize"
  /\ events # <<>>
  /\ ret = SummaryText(events)
  /\ ret # ViewText(events)

\* The titles, dates and descriptions the two spellings of an add are built from
PhraseTitles == {"Launch", "Team sync", "Team events", "Playlist"}

PhraseDates == {"2026-05-04", "2024-02-29", "2026-01-01"}

PhraseDescriptions == {"Rocket day", "x"}

ShorthandAdd(T, D, X) == "add:" \o T \o "|" \o D \o "|" \o X

NaturalAdd(T, D, X) == "Add " \o T \o " on " \o D \o " about " \o X

\* Both spellings leave the store the same, with the event {T, D, X} appended
SameEventAppended(T, D, X) ==
  \A today \in Todays :
    LET a == MessageEffect(events, ShorthandAdd(T, D, X), today)
        b == MessageEffect(events, NaturalAdd(T, D, X), today)
    IN /\ a.events = b.events
       /\ a.events = Append(events, [title |-> T, date |-> D, description |-> X])

\* Neither spelling holds a summary or a list keyword
NoKeyword(T, D, X) ==
  \A msg \in {ShorthandAdd(T, D, X), NaturalAdd(T, D, X)} :
    ~RuleMatches(1, Lower(msg)) /\ ~RuleMatches(2, Lower(msg))

-----------------------------------------------------------------------------
(* C11: logout *)

\* The step is a call of tool name for the provider p (in any letter case)
Calls(name, p) == op'.name = name /\ Lower(op'.provider) = p

\* The step is a call that took the credential of p from its manager, which
\* wrote the token file
Acquires(p) ==
  /\ op'.name \in {"oauth_login", "create_calendar_event"}
  /\ Lower(op'.provider) = p
  /\ \E i \in 1..Len(steps') : steps'[i] = "write"
  /\ ret' # ret \/ op' # op \/ steps' # steps

AcquiresGoogle == Acquires("google")

AcquiresMicrosoft == Acquires("microsoft")

\* C11: a logout reports a removal if and only if the provider's token file
\* existed before the call; after it the provider is not authenticated and the
\* other provider's token file is as before; a token file comes into being
\* only by a successful acquisition of that provider's credential; a logout
\* right after a logout of the same provider reports nothing removed.
C11_LogoutRemovesToken ==
  [][ /\ (oauth_logout("google") /\ Calls("oauth_logout", "google")) =>
           /\ (ret' = GoogleLogoutOkMsg) <=> google_file.exists
           /\ ret' \in {GoogleLogoutOkMsg, GoogleLogoutNoneMsg}
           /\ ~IsAuthenticated("google", google_file', microsoft_file')
           /\ microsoft_file' = microsoft_file
           /\ (op.name = "oauth_logout" /\ Lower(op.provider) = "google")
                => ret' = GoogleLogoutNoneMsg
      /\ (oauth_logout("Microsoft") /\ Calls("oauth_logout", "microsoft")) =>
           /\ (ret' = MicrosoftLogoutOkMsg) <=> microsoft_file.exists
           /\ ret' \in {MicrosoftLogoutOkMsg, MicrosoftLogoutNoneMsg}
           /\ ~IsAuthenticated("microsoft", google_file', microsoft_file')
           /\ google_file' = google_file
           /\ (op.name = "oauth_logout" /\ Lower(op.provider) = "microsoft")
                => ret' = MicrosoftLogoutNoneMsg
      /\ (~google_file.exists /\ google_file'.exists) => AcquiresGoogle
      /\ (~microsoft_file.exists /\ microsoft_file'.exists) => AcquiresMicrosoft
    ]_vars

\* A logout of google that removed the token file was followed at once by a
\* second one, which found nothing; the Microsoft token file stayed.
C11_Witness ==
  /\ op.name = "oauth_logout" /\ op.provider = "google"
  /\ prev.name = "oauth_logout" /\ prev.title = "google" /\ prev.ok
  /\ ret = GoogleLogoutNoneMsg
  /\ ~google_file.exists
  /\ microsoft_file.exists

-----------------------------------------------------------------------------
(* C12: failures of the credential managers *)

\* The exceptions that the managers raise themselves: FileNotFoundError and
\* ValueError for a missing configuration, Exception for an exchange that
\* returned no access token
TypedFailures == {"FileNotFoundError", "ValueError", "Exception"}

\* C12: in every call of oauth_login, what get_google_credentials or
\* get_microsoft_token raises to it is one of the typed failures, never the
\* exception of the token load, the refresh or the interactive exchange itself.
C12_NoRawException ==
  [][ /\ \A ans \in GoogleAnswers :
           oauth_login("google", ans) =>
             GetGoogleCredentials(google_file, google_creds, config, ans).raised.kind
               \in {""} \cup TypedFailures
      /\ \A ans \in MicrosoftAnswers :
           oauth_login("Microsoft", ans) =>
             GetMicrosoftToken(microsoft_file, microsoft_token, config, ans).raised.kind
               \in {""} \cup TypedFailures
    ]_vars

-----------------------------------------------------------------------------
(* C13: the calendar API never raises *)

\* The remote call completed successfully
RemoteSucceeds(remote) ==
  remote.net_ok /\ remote.status \in {200, 201} /\ remote.body = "event"

\* The last step of the call was the request to the calendar service
ReachedRemote == steps # <<>> /\ steps[Len(steps)] \in {"insert", "post"}

\* The dict is a success exactly when the remote call was one; a failure
\* carries an error text; nothing is raised
ReturnsDict(e, remote) ==
  /\ e.raised.kind = ""
  /\ e.result.success <=> RemoteSucceeds(remote)
  /\ ~e.result.success => e.result.error # ""

-----------------------------------------------------------------------------
(* C14, C15, C16: the dispatcher *)

\* The request the handler answered last named no tool, or an empty one
NameMissing == ~op.has_tool \/ op.title = ""

\* The tool named is not registered, or is called with arguments it raises on
CallFails ==
  \/ op.title \notin tools
  \/ ~(RequiredArgs(op.title) \subseteq op.input.keys)

\* The text that an error response carries
ErrorText(msg) == response.body = JsonObject("error", msg)

ToolSurface ==
  StoreTools \cup RemoteTools \cup {"summarize_events", "handle_message"}

\* C15: while the server serves, every operation of the tool surface is
\* registered as a tool; once it has served, no tool is registered any more.
C15_AllToolsRegisteredWhileServing ==
  [][ /\ Serving' => ToolSurface \subseteq tools'
      /\ phase \in {"serving_stdio", "imported", "after_run", "exited"} => tools' = tools
    ]_vars

\* C16: the result of a response with status 200 is the text that the tool
\* returned, whatever kind of value call_tool wraps it in.
C16_ResultIsToolText ==
  (op.name = "handler" /\ response.statusCode = 200) =>
    response.body = JsonObject("result", ret)

-----------------------------------------------------------------------------
(* C17: credentials are persisted *)

\* A manager call that returns leaves the token file in place
ReturnLeavesFile(r) == r.raised.kind = "" => (r.file.exists /\ r.creds.exists)

\* The last call was tool name for provider p, the one before it was an
\* oauth_login of p that reported success
AfterLogin(name, p) ==
  /\ op.name = name /\ Lower(op.provider) = p
  /\ prev.name = "oauth_login" /\ Lower(prev.title) = p /\ prev.ok

\* C17: whatever the libraries answer, a get_google_credentials or
\* get_microsoft_token that returns leaves the provider's token file in place;
\* an oauth_login that reports success leaves it so, a check_auth_status right
\* after it reports the provider authenticated, and a token file goes away
\* only by an oauth_logout of its provider.
C17_AcquiredCredentialPersisted ==
  /\ [](/\ \A ans \in GoogleAnswers :
             ReturnLeavesFile(GetGoogleCredentials(google_file, google_creds, config, ans))
        /\ \A ans \in MicrosoftAnswers :
             ReturnLeavesFile(GetMicrosoftToken(microsoft_file, microsoft_token, config, ans))
        /\ (op.name = "oauth_login" /\ ret = GoogleLoginOkMsg) => google_file.exists
        /\ (op.name = "oauth_login" /\ ret = MicrosoftLoginOkMsg) => microsoft_file.exists
        /\ AfterLogin("check_auth_status", "google")
             => ret = "Google: " \o CheckMark \o " Authenticated"
        /\ AfterLogin("check_auth_status", "microsoft")
             => ret = "Microsoft: " \o CheckMark \o " Authenticated")
  /\ [][ /\ (google_file.exists /\ ~google_file'.exists) => Calls("oauth_logout", "google")
         /\ (microsoft_file.exists /\ ~microsoft_file'.exists)
              => Calls("oauth_logout", "microsoft")
       ]_vars

\* An oauth_login of google reported success, and the check_auth_status right
\* after it reports the provider authenticated.
C17_Witness ==
  /\ AfterLogin("check_auth_status", "google")
  /\ google_file.exists /\ google_creds.exists
  /\ ret = "Google: " \o CheckMark \o " Authenticated"

-----------------------------------------------------------------------------
(* C18, C19, C20: the order of the steps of a credential acquisition *)

\* The step named is among the steps st
Made(st, step) == \E i \in 1..Len(st) : st[i] = step

\* C18: whatever the libraries answer, get_google_credentials returns a valid
\* cached token with no refresh and no interactive flow; refreshes an expired
\* cached token that has a refresh token and starts no interactive flow; asks
\* for the client configuration only when the token is absent or cannot be
\* refreshed, and when that configuration is missing fails with the
\* missing-configuration failure, starts no flow and writes no token file.
C18_GoogleDecisionOrder ==
  \A ans \in GoogleAnswers :
    LET r == GetGoogleCredentials(google_file, google_creds, config, ans)
        valid == google_file.exists /\ CredsValid(google_file)
        refreshable == google_file.exists /\ google_file.expired /\ google_file.refresh
    IN /\ valid => /\ r.raised.kind = "" /\ r.creds = google_file /\ r.file = google_file
                   /\ ~Made(r.steps, "refresh") /\ ~Made(r.steps, "flow")
       /\ (~valid /\ refreshable) =>
            /\ Made(r.steps, "refresh") /\ ~Made(r.steps, "flow")
            /\ r.raised # GoogleConfigMissing
            /\ ans.refresh_ok => (r.raised.kind = "" /\ CredsValid(r.creds))
       /\ r.raised = GoogleConfigMissing <=>
            (~valid /\ ~refreshable /\ ~config.credentials_json)
       /\ r.raised = GoogleConfigMissing =>
            /\ ~Made(r.steps, "flow") /\ ~Made(r.steps, "write")
            /\ r.file = google_file
       /\ Made(r.steps, "flow") => (~valid /\ ~refreshable /\ config.credentials_json)
       /\ (op.name = "oauth_login" /\ Lower(op.provider) = "google") =>
            ~(Made(steps, "refresh") /\ Made(steps, "flow"))

\* oauth_login of google found an expired token with a refresh token and
\* refreshed it silently: the token was loaded, refreshed and written, no flow.
C18_Witness ==
  /\ op.name = "oauth_login" /\ op.provider = "google"
  /\ steps = <<"load", "refresh", "write">>
  /\ ret = GoogleLoginOkMsg
  /\ CredsValid(google_file)

\* get_microsoft_token takes the cached token file first, then the account
\* cache, then the interactive flow, which it starts only when the file is
\* absent and the silent acquisition gave no access token
MicrosoftSourcesInOrder(r, ans) ==
  /\ microsoft_file.exists =>
       /\ r.raised.kind = "" /\ r.creds = microsoft_file /\ r.steps = <<"load">>
  /\ Made(r.steps, "silent") => (~microsoft_file.exists /\ ans.accounts)
  /\ Made(r.steps, "interactive") =>
       /\ ~microsoft_file.exists
       /\ ~(ans.accounts /\ ans.silent = "token")
       /\ ans.accounts => \E i, j \in 1..Len(r.steps) :
                            i < j /\ r.steps[i] = "silent" /\ r.steps[j] = "interactive"
  /\ (~microsoft_file.exists /\ ans.app_ok /\ config.client_id /\ config.client_secret
        /\ ~(ans.accounts /\ ans.silent = "token")) => Made(r.steps, "interactive")

\* The call fails for the missing client identifiers and leaves the storage
FailsForMissingConfig(r) ==
  /\ r.raised = MicrosoftConfigMissing
  /\ r.file = microsoft_file
  /\ r.steps = <<>>

\* C19 as stated: the sources are tried in order, and whenever the client
\* identifiers are not configured the call fails with the missing-configuration
\* failure and leaves the storage unchanged.
C19_MicrosoftSourceOrder ==
  \A ans \in MicrosoftAnswers :
    LET r == GetMicrosoftToken(microsoft_file, microsoft_token, config, ans)
    IN /\ MicrosoftSourcesInOrder(r, ans)
       /\ (~config.client_id \/ ~config.client_secret) => FailsForMissingConfig(r)

\* C19 amended: the sources are tried in order, and whenever the token file is
\* absent and the client identifiers are not configured the call fails with
\* the missing-configuration failure and leaves the storage unchanged; with a
\* token file the cached token is returned whatever the configuration.
C19_MicrosoftSourceOrderCacheFirst ==
  \A ans \in MicrosoftAnswers :
    LET r == GetMicrosoftToken(microsoft_file, microsoft_token, config, ans)
    IN /\ MicrosoftSourcesInOrder(r, ans)
       /\ (~microsoft_file.exists /\ (~config.client_id \/ ~config.client_secret))
            <=> FailsForMissingConfig(r)
       /\ (op.name = "oauth_login" /\ ret = LoginErrorMsg(MicrosoftConfigMissing))
            => (~microsoft_file.exists /\ steps = <<>>)

\* oauth_login of microsoft found no token file, got nothing from the account
\* cache and took the token from the interactive flow.
C19_Witness ==
  /\ op.name = "oauth_login" /\ op.provider = "Microsoft"
  /\ steps = <<"app", "accounts", "silent", "interactive", "write">>
  /\ ret = MicrosoftLoginOkMsg
  /\ microsoft_file.exists

\* The steps that go to a remote service
RemoteSteps == {"refresh", "flow", "silent", "interactive", "insert", "post"}

\* No remote step occurs twice among the steps st
AtMostOnce(st) ==
  \A i, j \in 1..Len(st) : (st[i] = st[j] /\ st[i] \in RemoteSteps) => i = j

\* The text reports a remote call that failed
RemoteFailureText(t) ==
  \/ StartsWith(t, "Authentication failed: ")
  \/ StartsWith(t, "Failed to create ")
  \/ (StartsWith(t, "Error: ") /\ t \notin {CreateErrorMsg(GoogleConfigMissing),
                                            CreateErrorMsg(MicrosoftConfigMissing)})

\* C20: whatever the libraries and the service answer, a credential
\* acquisition makes each remote step at most once and ends with the step that
\* failed; an oauth_login or create_calendar_event made each remote step at
\* most once, and one that reports a failed remote call ended with that call.
C20_NoRetries ==
  /\ \A ans \in GoogleAnswers :
       LET r == GetGoogleCredentials(google_file, google_creds, config, ans)
       IN /\ AtMostOnce(r.steps)
          /\ r.raised.kind \in {"LibraryError", "Exception"}
               => r.steps[Len(r.steps)] \in RemoteSteps \cup {"app"}
  /\ \A ans \in MicrosoftAnswers :
       LET r == GetMicrosoftToken(microsoft_file, microsoft_token, config, ans)
       IN /\ AtMostOnce(r.steps)
          /\ r.raised.kind \in {"LibraryError", "Exception"}
               => r.steps[Len(r.steps)] \in RemoteSteps \cup {"app"}
  /\ op.name \in {"oauth_login", "create_calendar_event"} =>
       /\ AtMostOnce(steps)
       /\ RemoteFailureText(ret) =>
            (steps # <<>> /\ steps[Len(steps)] \in RemoteSteps \cup {"app"})
       /\ Made(steps, "insert") => steps[Len(steps)] = "insert"
       /\ Made(steps, "post") => steps[Len(steps)] = "post"

\* create_calendar_event for google could not reach the service: the one
\* request is the last step and the failure is reported.
C20_Witness ==
  /\ op.name = "create_calendar_event" /\ op.provider = "google"
  /\ steps # <<>> /\ steps[Len(steps)] = "insert"
  /\ Len(SelectSeq(steps, LAMBDA x : x = "insert")) = 1
  /\ ret = NotCreatedMsg("Google Calendar", "Unable to reach googleapis.com")

-----------------------------------------------------------------------------
(* C21 *)

\* t is a time of day written as HH:MM: two digits, a colon, two digits, an
\* hour 00..23 and a minute 00..59
IsHourMinute(t) ==
  /\ Len(t) = 5
  /\ \A i \in {1, 2, 4, 5} : IsDigit(Char(t, i))
  /\ Char(t, 3) = ":"
  /\ ToInt(SubSeq(t, 1, 2)) <= 23
  /\ ToInt(SubSeq(t, 4, 5)) <= 59

\* What a rejected call leaves alone: the held credentials and the token
\* files, the export files, and no step of an acquisition or a remote call
NoSideEffect ==
  /\ steps' = <<>>
  /\ UNCHANGED <<google_file, microsoft_file, google_creds, microsoft_token>>
  /\ UNCHANGED <<files, exported>>

\* C21: whenever create_calendar_event or export_ics is called with a date
\* that is not a valid YYYY-MM-DD date, or with a start or end time that is
\* not a valid HH:MM time, it returns the invalid-date text, or the
\* invalid-time text when the date is valid, and has no side effect.
C21_InvalidInputNoEffect ==
  [][ ( /\ op'.name \in {"create_calendar_event", "export_ics"} /\ ~TokenExpires
        /\ ~(IsIsoDate(op'.date) /\ IsHourMinute(op'.start_time)
               /\ IsHourMinute(op'.end_time)) )
        => /\ ret' = IF ~IsIsoDate(op'.date) THEN InvalidDateMsg ELSE InvalidTimeMsg
           /\ NoSideEffect ]_vars

\* What the code does hold to: a date or a time its own parser rejects gets
\* the text of the first failed validation and has no side effect.
C21_ParserRejectedNoEffect ==
  [][ ( /\ op'.name \in {"create_calendar_event", "export_ics"} /\ ~TokenExpires
        /\ ~(StrptimeYmd(op'.date) /\ StrptimeHM(op'.start_time)
               /\ StrptimeHM(op'.end_time)) )
        => /\ ret' = IF ~StrptimeYmd(op'.date) THEN InvalidDateMsg ELSE InvalidTimeMsg
           /\ NoSideEffect ]_vars

-----------------------------------------------------------------------------
(* C22 *)

\* The tool name does not support the provider p: check_auth_status knows
\* google, microsoft and all, the other tools google and microsoft
Unsupported(name, p) ==
  IF name = "check_auth_status"
  THEN Lower(p) \notin {"google", "microsoft", "all"}
  ELSE Lower(p) \notin {"google", "microsoft"}

\* The text names the provider as unsupported or unknown
UnknownProviderText(t, p) ==
  \/ StartsWith(t, "Unsupported provider: " \o Lower(p) \o ".")
  \/ StartsWith(t, "Unknown provider: " \o Lower(p) \o ".")

\* The step is a call of one of the four tools that take a provider, with a
\* provider the tool does not support
UnsupportedCall ==
  /\ op'.name \in {"oauth_login", "create_calendar_event", "oauth_logout",
                   "check_auth_status"}
  /\ ~TokenExpires
  /\ Unsupported(op'.name, op'.provider)

\* No token file read, written or removed, no flow started, no remote call
CredentialStateUntouched ==
  /\ steps' = <<>>
  /\ UNCHANGED <<google_file, microsoft_file, google_creds, microsoft_token>>

\* C22 as stated: a call of oauth_login, create_calendar_event, oauth_logout or
\* check_auth_status with a provider the tool does not support returns a text
\* that says so and leaves the credential state untouched.
C22_UnsupportedProviderRejected ==
  [][ UnsupportedCall
        => (UnknownProviderText(ret', op'.provider) /\ CredentialStateUntouched) ]_vars

\* C22 amended: such a call leaves the credential state untouched, and returns
\* a text that says the provider is unsupported, except that
\* create_calendar_event with a date or a time that fails its validation
\* returns the text of that validation.
C22_UnsupportedProviderAfterValidation ==
  [][ UnsupportedCall
        => /\ CredentialStateUntouched
           /\ IF op'.name = "create_calendar_event"
                 /\ ~(StrptimeYmd(op'.date) /\ StrptimeHM(op'.start_time)
                        /\ StrptimeHM(op'.end_time))
              THEN ret' \in {InvalidDateMsg, InvalidTimeMsg}
              ELSE UnknownProviderText(ret', op'.provider) ]_vars

\* With a Google token file in place create_calendar_event was called for a
\* provider that is not supported and said so; the token file is still there.
C22_Witness ==
  /\ op.name = "create_calendar_event" /\ op.provider = "apple"
  /\ ret = UnsupportedCreateMsg("apple")
  /\ steps = <<>>
  /\ google_file.exists

-----------------------------------------------------------------------------
(* C23 *)

\* A line of a listing without the line end
Unterminated(line) == SubSeq(line, 1, Len(line) - 1)

\* The two texts list the same events in the same order: line by line there is
\* a stored event that view_events and summarize_events both show there
SameListing(v, s) ==
  /\ Len(EventLines(v)) = Len(events)
  /\ Len(EventLines(s)) = Len(events)
  /\ \A i \in 1..Len(events) :
       \E j \in 1..Len(events) :
         /\ EventLines(v)[i] = Unterminated(ViewLine(events[j]))
         /\ EventLines(s)[i] = Unterminated(SummaryLine(events[j]))

-----------------------------------------------------------------------------
(* C24 *)

\* The step is an add_event that returned its confirmation
AddSucceeds == op'.name = "add_event" /\ ret' = AddedMsg(op'.title, op'.date)

\* C24: a successful add_event makes the store one event longer, leaves the
\* events stored before as they were and where they were, and puts the event
\* it was called with at the end, whether or not an event of that title and
\* date is already stored.
C24_AddAppendsOne ==
  [][ AddSucceeds
        => /\ Len(events') = Len(events) + 1
           /\ SubSeq(events', 1, Len(events)) = events
           /\ events'[Len(events')] = [title |-> op'.title, date |-> op'.date,
                                       description |-> op'.description] ]_vars

\* add_event has just stored an event whose title and date an earlier entry
\* of the store has too: both entries are there.
C24_Witness ==
  /\ op.name = "add_event" /\ ret = AddedMsg(op.title, op.date)
  /\ Len(events) >= 2
  /\ events[Len(events)].title = op.title /\ events[Len(events)].date = op.date
  /\ \E i \in 1..(Len(events) - 1) :
       events[i].title = op.title /\ events[i].date = op.date

-----------------------------------------------------------------------------
(* C25 *)

\* The token files and the held credentials are as they were
CredentialsUnchanged ==
  UNCHANGED <<google_file, microsoft_file, google_creds, microsoft_token>>

\* C25: a call of view_events, summarize_events or check_auth_status leaves
\* the stored list (its order too) and the token files as they were; a call of
\* add_event or delete_event leaves the credential state as it was; a call of
\* oauth_login, oauth_logout, create_calendar_event or export_ics leaves the
\* event store as it was.
C25_ToolsKeepToTheirState ==
  [][ /\ op'.name \in {"view_events", "summarize_events", "check_auth_status"}
          => (events' = events /\ CredentialsUnchanged)
      /\ op'.name \in {"add_event", "delete_event"} => CredentialsUnchanged
      /\ op'.name \in {"oauth_login", "oauth_logout", "create_calendar_event",
                       "export_ics"}
          => events' = events ]_vars

\* view_events was called on a store of events that are not in the order of
\* their dates while both token files exist: the store is still out of order
\* and the token files are still there.
C25_Witness ==
  /\ op.name = "view_events"
  /\ Len(events) >= 2 /\ events # SortedByDate(events)
  /\ ret = ViewText(events)
  /\ google_file.exists /\ microsoft_file.exists

-----------------------------------------------------------------------------
(* C26 *)

\* The step is a call of exchange_code_for_token or load_credentials that
\* returned False
ReturnsFalse ==
  /\ op'.name \in {"exchange_code_for_token", "load_credentials"}
  /\ outcome' = [returned |-> FALSE, raised |-> FALSE]
  /\ prev' = Seen(op, ret)

\* C26: before any call the handler has no credentials and is not
\* authenticated; is_authenticated answers True only with credentials that
\* are present and valid; exchange_code_for_token and load_credentials never
\* raise; and a call of either that returns False does not leave the handler
\* authenticated with credentials it did not hold before the call.
C26_HandlerAuthenticationState ==
  /\ [](/\ op = NoCall => (handler_credentials = NoCredentials
                             /\ ~HandlerIsAuthenticated(handler_credentials))
        /\ HandlerIsAuthenticated(handler_credentials) => (handler_credentials.present /\ handler_credentials.valid)
        /\ ~outcome.raised)
  /\ [][ (op'.name = "is_authenticated" /\ prev' = Seen(op, ret) /\ outcome'.returned)
           => (handler_credentials.present /\ handler_credentials.valid) ]_vars
  /\ [][ (ReturnsFalse /\ HandlerIsAuthenticated(handler_credentials'))
           => handler_credentials' = handler_credentials ]_vars

\* What the code does hold to: load_credentials that returns False leaves the
\* handler with the credentials it held, or with credentials that are not valid.
C26_FailedLoadNotAuthenticated ==
  [][ (ReturnsFalse /\ op'.name = "load_credentials"
         /\ HandlerIsAuthenticated(handler_credentials'))
        => handler_credentials' = handler_credentials ]_vars

=============================================================================
